---- MODULE Spec2Model ----
(***************************************************************************)
(* FluxDB storage engine: Database (WAL + live MemTable + immutable queue  *)
(* + SSTable set), modelled from fluxdb-core/src/storage/database.rs,      *)
(* wal/writer.rs, wal/reader.rs, memtable/mod.rs, sstable/builder.rs and   *)
(* sstable/reader.rs.                                                      *)
(*                                                                         *)
(* Abstractions: a series key is its rank in the derived Ord order; sizes  *)
(* are counted in points (one point = EntrySize bytes); every write call   *)
(* carries a distinct field map, FieldsOf(op), so that versions of a key   *)
(* can be told apart.                                                      *)
(***************************************************************************)
EXTENDS Integers, Sequences, FiniteSets, TLC

\* ---------------------------------------------------------------- bounds
Threads == {1, 2}
Series == {1}
Timestamps == {1, 2}
MaxBatch == 2
MaxWrites == 3
MaxCalls == 3
MaxOpens == 2
MaxFaults == 1
MemtableSizeLimit == 2
SegmentSize == 2
EntrySize == 1
MaxAppends == 3
SegmentBytes == 40
CompWorkers == {1, 2}
MaxFileId == 3
MaxPoints == 2
MaxNumKeys == 2
MaxBitsPerKey == 3
MaxBloomKeys == 2
MaxInserts == 3
MaxEntries == 2
CacheMaxSize == 4
MaxBlockLen == 3
MaxBlocks == 3
MaxReads == 4

Keys == Series \X Timestamps
FieldNames == {"value"}
\* TimeRange::new(i64::MIN, i64::MAX) and a one-timestamp range
FullRange == <<0, 3>>
QueryRanges == {FullRange, <<2, 2>>}
\* database names; load_databases skips the ones that start with '.'
DbNames == {"a", "b", ".c"}
HiddenNames == {".c"}

\* ------------------------------------------------------- types.rs helpers
EmptyMap == [k \in {} |-> 0]

\* FieldValue::as_f64: Float and Integer convert, Boolean and String do not
NumericKinds == {"Float", "Integer"}
AsF64(fv) == IF fv.kind \in NumericKinds THEN [some |-> TRUE, v |-> fv.v]
             ELSE [some |-> FALSE, v |-> 0]

\* the field map carried by the points of write call number op: the value
\* op, as FieldValue::Integer in the even calls and FieldValue::Float in the
\* odd ones
KindOf(op) == IF op % 2 = 0 THEN "Integer" ELSE "Float"
FieldsOf(op) == [f \in FieldNames |-> [kind |-> KindOf(op), v |-> op]]

\* derived Ord of MemTableKey: series key first, then timestamp
KeyLeq(a, b) == a[1] < b[1] \/ (a[1] = b[1] /\ a[2] <= b[2])

RECURSIVE AscSeq(_)
AscSeq(S) == IF S = {} THEN <<>>
             ELSE LET m == CHOOSE x \in S : \A y \in S : x <= y
                  IN <<m>> \o AscSeq(S \ {m})

RECURSIVE AscKeys(_)
AscKeys(S) == IF S = {} THEN <<>>
              ELSE LET m == CHOOSE x \in S : \A y \in S : KeyLeq(x, y)
                   IN <<m>> \o AscKeys(S \ {m})

\* all non-empty batches of at most MaxBatch points with distinct keys
Batches == UNION {{b \in [1..n -> Keys] : \A i, j \in 1..n : i # j => b[i] # b[j]}
                  : n \in 1..MaxBatch}

\* the points of write call number op for the keys of batch b
PointsOf(op, b) == [i \in 1..Len(b) |-> [key |-> b[i], fields |-> FieldsOf(op)]]

\* ------------------------------------------------------------- MemTable
NewMemTable(id) == [id |-> id, data |-> EmptyMap, size_bytes |-> 0]
NoMemTable == NewMemTable(-1)

\* SkipList::insert as a sorted map: an existing key has its value replaced
SkipInsert(data, key, value) ==
    [k \in DOMAIN data \cup {key} |-> IF k = key THEN value ELSE data[k]]

\* MemTable::insert_batch: every point inserted in order under one lock,
\* size_bytes raised by the size of every point of the batch
RECURSIVE InsertAll(_, _)
InsertAll(data, points) ==
    IF points = <<>> THEN data
    ELSE InsertAll(SkipInsert(data, Head(points).key, Head(points).fields), Tail(points))

\* insert_batch that lets go of the lock after the first point
InsertBatchFirst(mt, points) ==
    [mt EXCEPT !.data = InsertAll(mt.data, SubSeq(points, 1, 1)),
               !.size_bytes = mt.size_bytes + EntrySize * Len(points)]

InsertBatch(mt, points) ==
    [mt EXCEPT !.data = InsertAll(mt.data, points),
               !.size_bytes = mt.size_bytes + EntrySize * Len(points)]

ShouldFlush(mt, limit) == mt.size_bytes >= limit

\* MemTable::query: skip-list range [(series,start), (series,end)], then
\* the series filter, values in ascending key order
MemQuery(mt, s, lo, hi) ==
    LET inRange == {k \in DOMAIN mt.data :
                      KeyLeq(<<s, lo>>, k) /\ KeyLeq(k, <<s, hi>>)}
        hits == AscKeys({k \in inRange : k[1] = s})
    IN [i \in 1..Len(hits) |-> [timestamp |-> hits[i][2], fields |-> mt.data[hits[i]]]]

\* -------------------------------------------------------------- SSTable
\* SSTableBuilder::add + finish over ImmutableMemTable::iter: every entry
\* counts in entry_count / min_timestamp / max_timestamp and puts its series
\* in the bloom filter; only fields with as_f64() = Some are stored, as f64,
\* in the block of their (series, field)
BuildFromMemtable(mt) ==
    LET ks == DOMAIN mt.data
        tss == {k[2] : k \in ks}
        stored == {x \in Series \X FieldNames :
                     \E k \in ks : k[1] = x[1] /\ x[2] \in DOMAIN mt.data[k]
                                   /\ AsF64(mt.data[k][x[2]]).some}
    IN [entry_count |-> Cardinality(ks),
        min_timestamp |-> IF ks = {} THEN FullRange[2]
                          ELSE CHOOSE x \in tss : \A y \in tss : x <= y,
        max_timestamp |-> IF ks = {} THEN FullRange[1]
                          ELSE CHOOSE x \in tss : \A y \in tss : x >= y,
        bloom |-> {k[1] : k \in ks},
        blocks |-> [x \in stored |->
                      LET ts == {k[2] : k \in {k \in ks : k[1] = x[1]
                                    /\ x[2] \in DOMAIN mt.data[k]
                                    /\ AsF64(mt.data[k][x[2]]).some}}
                      IN [t \in ts |-> AsF64(mt.data[<<x[1], t>>][x[2]]).v]]]

\* SSTableMeta::overlaps_time
OverlapsTime(meta, lo, hi) == meta.min_timestamp <= hi /\ meta.max_timestamp >= lo

\* SSTableReader::query on file content f: time-range and bloom short cuts,
\* then every block of the series is decoded and its values are merged per
\* timestamp as FieldValue::Float
SstQuery(f, s, lo, hi) ==
    IF ~OverlapsTime(f, lo, hi) \/ s \notin f.bloom THEN <<>>
    ELSE LET bs == {x \in DOMAIN f.blocks : x[1] = s}
             tss == {t \in Timestamps : lo <= t /\ t <= hi
                        /\ \E x \in bs : t \in DOMAIN f.blocks[x]}
             hits == AscSeq(tss)
         IN [i \in 1..Len(hits) |->
               [timestamp |-> hits[i],
                fields |-> [n \in {x[2] : x \in {y \in bs : hits[i] \in DOMAIN f.blocks[y]}}
                              |-> [kind |-> "Float", v |-> f.blocks[<<s, n>>][hits[i]]]]]]

\* ------------------------------------------------- Database::query_series
\* Vec::sort_by_key is stable: equal timestamps keep their gathering order
RECURSIVE SortByTimestamp(_)
SortByTimestamp(ps) ==
    IF ps = <<>> THEN <<>>
    ELSE LET rest == SortByTimestamp(SubSeq(ps, 1, Len(ps) - 1))
             x == ps[Len(ps)]
             n == Cardinality({i \in 1..Len(rest) : rest[i].timestamp <= x.timestamp})
         IN SubSeq(rest, 1, n) \o <<x>> \o SubSeq(rest, n + 1, Len(rest))

\* Vec::dedup_by(|a, b| a.timestamp == b.timestamp): of consecutive elements
\* with equal timestamps the first is kept and the later ones are removed
RECURSIVE DedupByTimestamp(_)
DedupByTimestamp(ps) ==
    IF Len(ps) <= 1 THEN ps
    ELSE LET front == DedupByTimestamp(SubSeq(ps, 1, Len(ps) - 1))
             x == ps[Len(ps)]
         IN IF front[Len(front)].timestamp = x.timestamp THEN front
            ELSE Append(front, x)

RECURSIVE Flatten(_)
Flatten(ss) == IF ss = <<>> THEN <<>> ELSE Head(ss) \o Flatten(Tail(ss))

\* ------------------------------------------------------------------ WAL
\* WalEntry::write + serialize_with_checksum: the record of one write call
WalRecord(op, points) == [op |-> op, points |-> points]
RecordLen(rec) == EntrySize * Len(rec.points)

\* WalWriter::should_sync
ShouldSync(policy, writes_since_sync) ==
    CASE policy.kind = "Immediate" -> TRUE
      [] policy.kind = "EveryN" -> writes_since_sync >= policy.n
      [] OTHER -> FALSE

\* WalWriter::find_latest_segment: highest segment id in the directory, or 0
FindLatestSegment(dir) ==
    IF DOMAIN dir = {} THEN 0
    ELSE CHOOSE x \in DOMAIN dir : \A y \in DOMAIN dir : x >= y

\* WalWriter::open_segment: create(true).append(true)
OpenSegment(dir, id) ==
    IF id \in DOMAIN dir THEN dir
    ELSE [x \in DOMAIN dir \cup {id} |->
            IF x = id THEN [recs |-> <<>>, synced |-> 0] ELSE dir[x]]

\* WalReader::recover: every segment in ascending id order, all its records
WalRecover(dir) ==
    LET ids == AscSeq(DOMAIN dir)
    IN Flatten([i \in 1..Len(ids) |-> dir[ids[i]].recs])

\* Database::recover: every recovered record is inserted into the MemTable
RECURSIVE Replay(_, _)
Replay(mt, recs) ==
    IF recs = <<>> THEN mt
    ELSE Replay(InsertBatch(mt, Head(recs).points), Tail(recs))

\* WalWriter::rotate_segment: flush + fsync the current file, open the next
WalRotate(st) ==
    LET cur == st.w.segment_id
        d1 == IF cur \in DOMAIN st.dir
              THEN [st.dir EXCEPT ![cur].synced = Len(st.dir[cur].recs)]
              ELSE st.dir
    IN [w |-> [segment_id |-> cur + 1, bytes_written |-> 0, writes_since_sync |-> 0],
        dir |-> OpenSegment(d1, cur + 1)]

\* write_all on the open file: the bytes reach the directory entry only while
\* the file is still linked there (an unlinked file keeps accepting writes)
WalWrite(st, rec) ==
    LET cur == st.w.segment_id
    IN [w |-> [st.w EXCEPT !.bytes_written = @ + RecordLen(rec),
                           !.writes_since_sync = @ + 1],
        dir |-> IF cur \in DOMAIN st.dir
                THEN [st.dir EXCEPT ![cur].recs = Append(@, rec)]
                ELSE st.dir]

\* flush + sync_all of the open file
WalSync(st) ==
    LET cur == st.w.segment_id
    IN [w |-> [st.w EXCEPT !.writes_since_sync = 0],
        dir |-> IF cur \in DOMAIN st.dir
                THEN [st.dir EXCEPT ![cur].synced = Len(st.dir[cur].recs)]
                ELSE st.dir]

\* WalWriter::append up to write_all: rotation check, then the write
WalAppendWrite(w, dir, rec) ==
    LET st == [w |-> w, dir |-> dir]
    IN WalWrite(IF w.bytes_written + RecordLen(rec) > SegmentSize
                THEN WalRotate(st) ELSE st, rec)

\* WalWriter::append: rotation check, write, sync by policy
WalAppend(w, dir, rec, policy) ==
    LET st == WalAppendWrite(w, dir, rec)
    IN IF ShouldSync(policy, st.w.writes_since_sync) THEN WalSync(st) ELSE st

\* WalWriter::truncate_before: every segment file with id < segment_id removed
TruncateBefore(dir, segment_id) ==
    [x \in {y \in DOMAIN dir : ~(y < segment_id)} |-> dir[x]]

\* ------------------------------------------------ WAL record format, bytes
\* A file is a sequence of cells; a cell stands for w bytes holding value v.
\* A cell cut by a truncation keeps its leading bytes only (kind "cut").
U32(v) == [k |-> "u32", w |-> 4, v |-> v]
U8(v) == [k |-> "u8", w |-> 1, v |-> v]
Bytes(bs) == [i \in 1..Len(bs) |-> U8(bs[i])]

RECURSIVE Width(_)
Width(cells) == IF cells = <<>> THEN 0 ELSE Head(cells).w + Width(Tail(cells))

\* data[..n]: the first n bytes of cells (n <= Width(cells))
RECURSIVE TakeBytes(_, _)
TakeBytes(cells, n) ==
    IF n = 0 \/ cells = <<>> THEN <<>>
    ELSE IF Head(cells).w <= n
         THEN <<Head(cells)>> \o TakeBytes(Tail(cells), n - Head(cells).w)
         ELSE <<[k |-> "cut", w |-> n, v |-> 0]>>

\* data[n..]: cells after the first n bytes, n on a cell boundary
RECURSIVE DropBytes(_, _)
DropBytes(cells, n) ==
    IF n <= 0 \/ cells = <<>> THEN cells
    ELSE DropBytes(Tail(cells), n - Head(cells).w)

\* crc32fast::hash as a position-weighted sum: every change of one cell of
\* the covered range changes the checksum
CrcModulus == 65521
RECURSIVE CrcSum(_, _)
CrcSum(cells, i) ==
    IF cells = <<>> THEN 0
    ELSE (i * (Head(cells).v + 1) + CrcSum(Tail(cells), i + 1)) % CrcModulus
Crc32(cells) == CrcSum(cells, 1)

\* WalEntryType::try_from accepts 1..5
WalEntryTypes == 1..5

\* WalEntry::serialize_with_checksum
SerializeWithChecksum(e) ==
    LET body == <<U8(e.entry_type), U32(Len(e.database))>> \o Bytes(e.database)
                \o <<U32(Len(e.payload))>> \o Bytes(e.payload)
        buf == body \o <<U32(Crc32(body))>>
    IN <<U32(Width(buf))>> \o buf

\* WalEntry::deserialize_with_checksum on data[offset..]
DeserializeWithChecksum(data) ==
    IF Width(data) < 4 THEN [res |-> "EntryTooShort"]
    ELSE LET len == Head(data).v
         IN IF Width(data) < 4 + len THEN [res |-> "IncompleteEntry"]
            ELSE IF len < 4 THEN [res |-> "Panic"]  \* entry_data.len() - 4 underflows
            ELSE LET entry_data == TakeBytes(Tail(data), len)
                     last == entry_data[Len(entry_data)]
                     front == SubSeq(entry_data, 1, Len(entry_data) - 1)
                 IN IF last.k # "u32" \/ last.v # Crc32(front)
                    THEN [res |-> "ChecksumMismatch"]
                    ELSE IF front[1].v \notin WalEntryTypes
                    THEN [res |-> "InvalidFormat"]
                    ELSE LET db_len == front[2].v
                             payload_len == front[3 + db_len].v
                         IN [res |-> "Ok",
                             entry |-> [entry_type |-> front[1].v,
                                        database |-> [i \in 1..db_len |-> front[2 + i].v],
                                        payload |-> [i \in 1..payload_len |->
                                                       front[3 + db_len + i].v]],
                             bytes_read |-> 4 + len]

\* WalReader::read_segment: records are read until the data ends; a checksum
\* mismatch or an incomplete record ends the segment, another error fails it
RECURSIVE ReadSegment(_)
ReadSegment(data) ==
    IF data = <<>> THEN [res |-> "Ok", entries |-> <<>>]
    ELSE LET d == DeserializeWithChecksum(data)
         IN IF d.res = "Ok"
            THEN LET rest == ReadSegment(DropBytes(data, d.bytes_read))
                 IN [rest EXCEPT !.entries = <<d.entry>> \o @]
            ELSE IF d.res \in {"ChecksumMismatch", "EntryTooShort", "IncompleteEntry"}
            THEN [res |-> "Ok", entries |-> <<>>]
            ELSE [res |-> d.res, entries |-> <<>>]

\* WalReader::recover over find_segments (ascending id): the entries of every
\* segment that was read, a failed segment being skipped with a warning
WalReaderRecover(files) ==
    LET ids == AscSeq(DOMAIN files)
        segs == [i \in 1..Len(ids) |-> ReadSegment(files[ids[i]])]
    IN IF \E i \in 1..Len(ids) : segs[i].res = "Panic"
       THEN [res |-> "Panic", entries |-> <<>>]
       ELSE [res |-> "Ok",
             entries |-> Flatten([i \in 1..Len(ids) |->
                                    IF segs[i].res = "Ok" THEN segs[i].entries ELSE <<>>])]

\* ------------------------------------------------- compaction scheduler
\* the CompactionConfig the scheduler is built with
CompactionConfig == [l0_file_trigger |-> 2, level_size_multiplier |-> 2,
                     base_level_size |-> 1, max_levels |-> 4]

LevelIds == 0..(CompactionConfig.max_levels - 1)
\* [min_key, max_key] of an SSTable, keys by rank
KeyRanges == {<<1, 1>>, <<1, 2>>, <<2, 2>>}
FileSizes == {1, 2}

\* SSTableMeta: the path is sst_<id>.flux, written here as the id
SSTableMeta(id, range, size) ==
    [path |-> id, id |-> id, file_size |-> size, min_key |-> range[1], max_key |-> range[2]]

\* what the flush that built the table stored: every key of its range, each
\* with the table's id as value
TableData(meta) == [k \in meta.min_key..meta.max_key |-> meta.id]

\* CompactionScheduler::new: max_levels empty levels
NewLevels == [i \in LevelIds |-> [level |-> i, files |-> <<>>, size_bytes |-> 0]]

SeqRange(s) == {s[i] : i \in 1..Len(s)}

RECURSIVE SumSizes(_)
SumSizes(files) == IF files = <<>> THEN 0 ELSE Head(files).file_size + SumSizes(Tail(files))

RECURSIVE Pow(_, _)
Pow(b, e) == IF e = 0 THEN 1 ELSE b * Pow(b, e - 1)

TargetSizeForLevel(level) ==
    CompactionConfig.base_level_size * Pow(CompactionConfig.level_size_multiplier, level - 1)

\* Option<SSTableMeta> as a sequence of at most one element
PickFileToCompact(level) == IF level.files = <<>> THEN <<>> ELSE <<Head(level.files)>>

\* every file of the level is taken, whatever its key range
FindOverlappingAll(level, file) == level.files

FindOverlapping(level, file) ==
    SelectSeq(level.files, LAMBDA f : f.max_key >= file.min_key /\ f.min_key <= file.max_key)

IdleTask == [kind |-> "Idle"]
NoTask == [kind |-> "None"]

\* the level loop of select_compaction from level i on
RECURSIVE SelectLevel(_, _)
SelectLevel(lv, i) ==
    IF i >= CompactionConfig.max_levels THEN NoTask
    ELSE IF /\ lv[i].size_bytes > TargetSizeForLevel(i)
            /\ i + 1 < CompactionConfig.max_levels
            /\ PickFileToCompact(lv[i]) # <<>>
         THEN LET file == PickFileToCompact(lv[i])[1]
              IN [kind |-> "LevelToLevel", source_level |-> i, source_files |-> <<file>>,
                  target_level |-> i + 1,
                  target_files |-> FindOverlapping(lv[i + 1], file)]
         ELSE SelectLevel(lv, i + 1)

SelectCompaction(lv) ==
    IF Len(lv[0].files) >= CompactionConfig.l0_file_trigger
    THEN [kind |-> "L0ToL1", l0_files |-> lv[0].files, l1_files |-> lv[1].files]
    ELSE SelectLevel(lv, 1)

\* the files a task reads and, when it is done, deletes
TaskInputs(t) ==
    IF t.kind = "L0ToL1" THEN t.l0_files \o t.l1_files
    ELSE IF t.kind = "LevelToLevel" THEN t.source_files \o t.target_files
    ELSE <<>>

\* merge_files: every input is opened, nothing is read from it
MergeFiles(files, disk) ==
    IF \E i \in 1..Len(files) : files[i].path \notin DOMAIN disk
    THEN [res |-> "Err", merged |-> EmptyMap]
    ELSE [res |-> "Ok", merged |-> EmptyMap]

\* write_level_files: no file is written
WriteLevelFiles(level, data) == <<>>

WithoutIds(files, old) ==
    SelectSeq(files, LAMBDA f : ~(\E i \in 1..Len(old) : old[i].id = f.id))

\* compact_l0_to_l1, the block under the write lock
UpdateL0ToL1(lv, l1_files, new_files) ==
    [lv EXCEPT ![0] = [@ EXCEPT !.files = <<>>, !.size_bytes = 0],
               ![1] = [@ EXCEPT !.files = WithoutIds(@, l1_files) \o new_files,
                                !.size_bytes = @ + SumSizes(new_files)]]

\* compact_level_to_level, the block under the write lock
UpdateLevelToLevel(lv, t, new_files) ==
    [lv EXCEPT ![t.source_level] = [@ EXCEPT !.files = WithoutIds(@, t.source_files)],
               ![t.target_level] = [@ EXCEPT !.files = WithoutIds(@, t.target_files) \o new_files,
                                             !.size_bytes = @ + SumSizes(new_files)]]

\* std::fs::remove_file on every input, errors ignored
RemoveFiles(disk, files) ==
    [p \in DOMAIN disk \ {files[i].path : i \in 1..Len(files)} |-> disk[p]]

\* ---------------------------------------------------------- Gorilla codec
\* an i64 or u64 is its 64 bits, most significant first
Zero64 == SubSeq([i \in 1..64 |-> 0], 1, 64)

\* the one element of a one-element set: Only({F(x) : x \in {e}}) is F(e)
\* with e evaluated once
Only(S) == CHOOSE x \in S : TRUE

NotBits(a) == SubSeq([i \in 1..64 |-> 1 - a[i]], 1, 64)
XorBits(a, b) == SubSeq([i \in 1..64 |-> (a[i] + b[i]) % 2], 1, 64)

\* a + b + cin modulo 2^64: a carry enters bit i when a lower position
\* generates one (or cin does) and every position in between passes it on
CarryInto(a, b, cin, i) ==
    \E j \in (i + 1)..65 :
       /\ IF j = 65 THEN cin = 1 ELSE a[j] = 1 /\ b[j] = 1
       /\ \A k \in (i + 1)..(j - 1) : a[k] # b[k]

AddBits(x, y, cin) ==
    Only({SubSeq([i \in 1..64 |->
                    (a[i] + b[i] + (IF CarryInto(a, b, cin, i) THEN 1 ELSE 0)) % 2], 1, 64) :
          a \in {x}, b \in {y}})

\* i64 `a - b` and `a + b`: with overflow checks (dev and test profiles) an
\* overflow panics, without them (release profile) the result wraps
SubI64(a, b, checks) ==
    Only({[val |-> r, panic |-> checks /\ a[1] # b[1] /\ r[1] # a[1]] :
          r \in {AddBits(a, NotBits(b), 1)}})

AddI64(a, b, checks) ==
    Only({[val |-> r, panic |-> checks /\ a[1] = b[1] /\ r[1] # a[1]] :
          r \in {AddBits(a, b, 0)}})

\* the low w bits of a small natural, most significant first
FromNat(n, w) ==
    SubSeq([i \in 1..w |-> IF w - i >= 24 THEN 0 ELSE (n \div (2 ^ (w - i))) % 2], 1, w)

RECURSIVE ToNat(_)
ToNat(bits) ==
    IF Len(bits) = 0 THEN 0
    ELSE 2 * ToNat(SubSeq(bits, 1, Len(bits) - 1)) + bits[Len(bits)]

\* a small integer as i64, and back when the i64 is that small
I64OfInt(n) == IF n >= 0 THEN FromNat(n, 64) ELSE NotBits(FromNat(-n - 1, 64))
IsSmall(a) == \A i \in 1..44 : a[i] = a[1]
IntOfI64(a) == ToNat(SubSeq(a, 45, 64)) - (IF a[1] = 1 THEN 2 ^ 20 ELSE 0)

I64Min == SubSeq([i \in 1..64 |-> IF i = 1 THEN 1 ELSE 0], 1, 64)
I64Max == SubSeq([i \in 1..64 |-> IF i = 1 THEN 0 ELSE 1], 1, 64)

\* u64::leading_zeros, u64::trailing_zeros, >> and << by n < 64
LeadingZeros(x) ==
    IF \A i \in 1..64 : x[i] = 0 THEN 64
    ELSE (CHOOSE i \in 1..64 : x[i] = 1 /\ \A j \in 1..(i - 1) : x[j] = 0) - 1
TrailingZeros(x) ==
    IF \A i \in 1..64 : x[i] = 0 THEN 64
    ELSE 64 - (CHOOSE i \in 1..64 : x[i] = 1 /\ \A j \in (i + 1)..64 : x[j] = 0)
Shr(x, n) == SubSeq([i \in 1..64 |-> IF i <= n THEN 0 ELSE x[i - n]], 1, 64)
Shl(x, n) == SubSeq([i \in 1..64 |-> IF i + n <= 64 THEN x[i + n] ELSE 0], 1, 64)

\* BitWriter::write_bits(value, num_bits): bits num_bits-1 .. 0 of the value
WriteBits(value, num_bits) == SubSeq(value, 65 - num_bits, 64)

\* GorillaEncoder::new
NewEncoder ==
    [writer |-> <<>>, count |-> 0, first_timestamp |-> Zero64, prev_timestamp |-> Zero64,
     prev_timestamp_delta |-> Zero64, prev_value_bits |-> Zero64,
     prev_leading_zeros |-> 0, prev_trailing_zeros |-> 0, panicked |-> FALSE]

EncodeFirst(e, timestamp, value_bits) ==
    [e EXCEPT !.first_timestamp = timestamp, !.prev_timestamp = timestamp,
              !.writer = @ \o timestamp \o value_bits, !.prev_value_bits = value_bits]

\* encode_timestamp, the match on delta_of_delta: the prefix code and payload
DodBits(dod) ==
    IF \A i \in 1..64 : dod[i] = 0 THEN <<0>>
    ELSE IF ~IsSmall(dod) THEN <<1, 1, 1, 1>> \o dod
    ELSE Only({IF n >= -63 /\ n <= 64 THEN <<1, 0>> \o FromNat(n + 63, 7)
               ELSE IF n >= -255 /\ n <= 256 THEN <<1, 1, 0>> \o FromNat(n + 255, 9)
               ELSE IF n >= -2047 /\ n <= 2048 THEN <<1, 1, 1, 0>> \o FromNat(n + 2047, 12)
               ELSE <<1, 1, 1, 1>> \o dod :
               n \in {IntOfI64(dod)}})

\* encode_timestamp once delta and delta_of_delta are computed
EncodeDelta(e, timestamp, delta, dd) ==
    IF delta.panic \/ dd.panic THEN [e EXCEPT !.panicked = TRUE]
    ELSE [e EXCEPT !.writer = @ \o DodBits(dd.val), !.prev_timestamp_delta = delta.val,
                   !.prev_timestamp = timestamp]

EncodeTimestamp(e, timestamp, checks) ==
    Only({Only({EncodeDelta(e, timestamp, delta, dd) :
                dd \in {SubI64(delta.val, e.prev_timestamp_delta, checks)}}) :
          delta \in {SubI64(timestamp, e.prev_timestamp, checks)}})

\* encode_value once xor and its zero counts are computed
EncodeXor(e, value_bits, xor, leading_zeros, trailing_zeros) ==
    IF leading_zeros = 64
    THEN [e EXCEPT !.writer = @ \o <<0>>, !.prev_value_bits = value_bits]
    ELSE IF leading_zeros >= e.prev_leading_zeros /\ trailing_zeros >= e.prev_trailing_zeros
    THEN [e EXCEPT !.writer = @ \o <<1, 0>>
                                \o WriteBits(Shr(xor, e.prev_trailing_zeros),
                                             64 - e.prev_leading_zeros - e.prev_trailing_zeros),
                   !.prev_value_bits = value_bits]
    ELSE [e EXCEPT !.writer = @ \o <<1, 1>>
                                \o FromNat(IF leading_zeros < 31 THEN leading_zeros ELSE 31, 5)
                                \o FromNat((64 - leading_zeros - trailing_zeros) % 64, 6)
                                \o WriteBits(Shr(xor, trailing_zeros),
                                             64 - leading_zeros - trailing_zeros),
                   !.prev_leading_zeros = leading_zeros,
                   !.prev_trailing_zeros = trailing_zeros,
                   !.prev_value_bits = value_bits]

EncodeValue(e, value_bits) ==
    Only({Only({EncodeXor(e, value_bits, xor, z[1], z[2]) :
                z \in {<<LeadingZeros(xor), TrailingZeros(xor)>>}}) :
          xor \in {XorBits(value_bits, e.prev_value_bits)}})

\* GorillaEncoder::encode
Encode(e, timestamp, value_bits, checks) ==
    IF e.count = 0
    THEN [EncodeFirst(e, timestamp, value_bits) EXCEPT !.count = 1]
    ELSE Only({IF t.panicked THEN t
               ELSE [EncodeValue(t, value_bits) EXCEPT !.count = e.count + 1] :
               t \in {EncodeTimestamp(e, timestamp, checks)}})

\* BitWriter::finish: the last byte is filled up with zero bits
PadToByte(bits) == bits \o SubSeq(Zero64, 1, (8 - (Len(bits) % 8)) % 8)

\* GorillaEncoder::finish
Finish(e) ==
    [data |-> PadToByte(e.writer), count |-> e.count,
     first_timestamp |-> e.first_timestamp, last_timestamp |-> e.prev_timestamp]

\* BitReader::read_bits: None past the end of the data
ReadBits(r, n) ==
    IF r.pos + n > Len(r.data) THEN [ok |-> FALSE, bits |-> <<>>, r |-> r]
    ELSE [ok |-> TRUE, bits |-> SubSeq(r.data, r.pos + 1, r.pos + n),
          r |-> [r EXCEPT !.pos = @ + n]]

\* the bits read by read_bits(n), as the u64 they make
AsU64(bits) ==
    IF Len(bits) >= 64 THEN SubSeq(bits, Len(bits) - 63, Len(bits))
    ELSE SubSeq(Zero64, 1, 64 - Len(bits)) \o bits

\* GorillaDecoder::new
NewDecoder(data, count) ==
    [reader |-> [data |-> data, pos |-> 0], count |-> count, decoded |-> 0,
     prev_timestamp |-> Zero64, prev_timestamp_delta |-> Zero64, prev_value_bits |-> Zero64,
     prev_leading_zeros |-> 0, prev_trailing_zeros |-> 0]

DecodeFirst(d) ==
    Only({IF ~t.ok THEN [res |-> "Err", d |-> d, point |-> <<>>]
          ELSE Only({IF ~v.ok THEN [res |-> "Err", d |-> d, point |-> <<>>]
                     ELSE [res |-> "Ok",
                           d |-> [d EXCEPT !.reader = v.r, !.prev_timestamp = t.bits,
                                           !.prev_value_bits = v.bits, !.decoded = 1],
                           point |-> <<t.bits, v.bits>>] :
                     v \in {ReadBits(t.r, 64)}}) :
          t \in {ReadBits(d.reader, 64)}})

\* the prefix of decode_timestamp: how many '1' bits are read before a '0'
\* (at most four), -1 when the data ends before the prefix does
RECURSIVE DodPrefix(_, _)
DodPrefix(r, ones) ==
    IF ones = 4 THEN [ones |-> 4, r |-> r]
    ELSE IF r.pos + 1 > Len(r.data) THEN [ones |-> -1, r |-> r]
    ELSE IF r.data[r.pos + 1] = 0 THEN [ones |-> ones, r |-> [r EXCEPT !.pos = @ + 1]]
    ELSE DodPrefix([r EXCEPT !.pos = @ + 1], ones + 1)

\* payload width and bias of the prefix codes 0, 10, 110, 1110, 1111
DodWidth == <<0, 7, 9, 12, 64>>
DodBias == <<0, 63, 255, 2047, 0>>

\* decode_timestamp once the delta_of_delta is read
DecodeDelta(d, r, delta_of_delta, checks) ==
    Only({Only({IF delta.panic \/ timestamp.panic
                THEN [res |-> "Panic", d |-> d, timestamp |-> Zero64]
                ELSE [res |-> "Ok",
                      d |-> [d EXCEPT !.reader = r, !.prev_timestamp_delta = delta.val,
                                      !.prev_timestamp = timestamp.val],
                      timestamp |-> timestamp.val] :
                timestamp \in {AddI64(d.prev_timestamp, delta.val, checks)}}) :
          delta \in {AddI64(d.prev_timestamp_delta, delta_of_delta, checks)}})

DecodeTimestamp(d, checks) ==
    Only({IF p.ones = -1 THEN [res |-> "Err", d |-> d, timestamp |-> Zero64]
          ELSE Only({IF ~v.ok THEN [res |-> "Err", d |-> d, timestamp |-> Zero64]
                     ELSE DecodeDelta(d, v.r,
                                      IF p.ones = 0 THEN Zero64
                                      ELSE IF p.ones = 4 THEN v.bits
                                      ELSE I64OfInt(ToNat(v.bits) - DodBias[p.ones + 1]),
                                      checks) :
                     v \in {ReadBits(p.r, DodWidth[p.ones + 1])}}) :
          p \in {DodPrefix(d.reader, 0)}})

\* decode_value once the window is known and the meaningful bits are read:
\* u32 arithmetic and << panic on overflow with checks and wrap without
DecodeXor(d, r, leading_zeros, meaningful_bits, mv, checks) ==
    Only({IF checks /\ (trailing_zeros < 0 \/ trailing_zeros >= 64)
          THEN [res |-> "Panic", d |-> d, value |-> Zero64]
          ELSE Only({[res |-> "Ok",
                      d |-> [d EXCEPT !.reader = r, !.prev_value_bits = value_bits,
                                      !.prev_leading_zeros = leading_zeros,
                                      !.prev_trailing_zeros = trailing_zeros],
                      value |-> value_bits] :
                     value_bits \in {XorBits(d.prev_value_bits,
                                             Shl(AsU64(mv), trailing_zeros % 64))}}) :
          trailing_zeros \in {64 - leading_zeros - meaningful_bits}})

\* decode_value after the control bits: a new window comes with a 5-bit
\* leading-zero count and a 6-bit length, the previous window is reused
DecodeWindow(d, r, new, checks) ==
    Only({Only({IF ~m.ok THEN [res |-> "Err", d |-> d, value |-> Zero64]
                ELSE DecodeXor(d, m.r, w[1], w[2], m.bits, checks) :
                m \in {ReadBits(r, w[2])}}) :
          w \in {IF new THEN <<ToNat(SubSeq(r.data, r.pos - 10, r.pos - 6)),
                               ToNat(SubSeq(r.data, r.pos - 5, r.pos))>>
                 ELSE <<d.prev_leading_zeros,
                        64 - d.prev_leading_zeros - d.prev_trailing_zeros>>}})

DecodeValue(d, checks) ==
    Only({IF ~b.ok THEN [res |-> "Err", d |-> d, value |-> Zero64]
          ELSE IF b.bits = <<0>>
          THEN [res |-> "Ok", d |-> [d EXCEPT !.reader = b.r], value |-> d.prev_value_bits]
          ELSE Only({IF ~c.ok THEN [res |-> "Err", d |-> d, value |-> Zero64]
                     ELSE IF c.bits[1] = 0 THEN DecodeWindow(d, c.r, FALSE, checks)
                     ELSE Only({IF ~h.ok THEN [res |-> "Err", d |-> d, value |-> Zero64]
                                ELSE DecodeWindow(d, h.r, TRUE, checks) :
                                h \in {ReadBits(c.r, 11)}}) :
                     c \in {ReadBits(b.r, 1)}}) :
          b \in {ReadBits(d.reader, 1)}})

\* GorillaDecoder::decode_next for a point after the first
DecodeNext(d, checks) ==
    Only({IF t.res # "Ok" THEN [res |-> t.res, d |-> d, point |-> <<>>]
          ELSE Only({IF v.res # "Ok" THEN [res |-> v.res, d |-> d, point |-> <<>>]
                     ELSE [res |-> "Ok", d |-> [v.d EXCEPT !.decoded = @ + 1],
                           point |-> <<t.timestamp, v.value>>] :
                     v \in {DecodeValue(t.d, checks)}}) :
          t \in {DecodeTimestamp(d, checks)}})

\* GorillaDecoder::decode_all
RECURSIVE DecodeLoop(_, _, _)
DecodeLoop(d, points, checks) ==
    IF d.decoded >= d.count THEN [res |-> "Ok", points |-> points]
    ELSE Only({IF n.res # "Ok" THEN [res |-> n.res, points |-> <<>>]
               ELSE DecodeLoop(n.d, Append(points, n.point), checks) :
               n \in {IF d.decoded = 0 THEN DecodeFirst(d) ELSE DecodeNext(d, checks)}})

DecodeAll(data, count, checks) == DecodeLoop(NewDecoder(data, count), <<>>, checks)

\* ------------------------------------------------------------ BloomFilter
\* a u64 is four 16-bit limbs, most significant first
Limb == 65536
U64Max == <<Limb - 1, Limb - 1, Limb - 1, Limb - 1>>

\* u64::wrapping_add
WrappingAdd(a, b) ==
    LET s4 == a[4] + b[4]
        s3 == a[3] + b[3] + (s4 \div Limb)
        s2 == a[2] + b[2] + (s3 \div Limb)
        s1 == a[1] + b[1] + (s2 \div Limb)
    IN <<s1 % Limb, s2 % Limb, s3 % Limb, s4 % Limb>>

\* (i as u64).wrapping_mul(h) for a small i
WrappingMul(i, h) ==
    LET p4 == i * h[4]
        p3 == i * h[3] + (p4 \div Limb)
        p2 == i * h[2] + (p3 \div Limb)
        p1 == i * h[1] + (p2 \div Limb)
    IN <<p1 % Limb, p2 % Limb, p3 % Limb, p4 % Limb>>

\* (hash as usize) % n for 0 < n < 2^15, usize being 64 bits wide
RemU64(h, n) ==
    LET r1 == h[1] % n
        r2 == ((r1 * Limb) + h[2]) % n
        r3 == ((r2 * Limb) + h[3]) % n
    IN ((r3 * Limb) + h[4]) % n

\* the keys handed to a BloomFilter and the values their hashes may take
BloomKeys == 1..MaxBloomKeys
HashValues == {<<0, 0, 0, 3>>, <<0, 0, 0, 10>>, U64Max}

\* BloomFilter::new: bits_per_key * 0.69 rounded to the nearest integer
NumHashes(bits_per_key) ==
    LET rounded == (69 * bits_per_key + 50) \div 100
    IN IF rounded < 1 THEN 1 ELSE IF rounded > 30 THEN 30 ELSE rounded

NewBloomFilter(num_keys, bits_per_key) ==
    [bits |-> SubSeq([b \in 1..64 |-> 0], 1, ((num_keys * bits_per_key) + 7) \div 8),
     num_bits |-> num_keys * bits_per_key,
     num_hashes |-> NumHashes(bits_per_key)]

\* BloomFilter::from_bytes
BloomFromBytes(data, num_hashes) ==
    [bits |-> data, num_bits |-> Len(data) * 8, num_hashes |-> num_hashes]

\* BloomFilter::bit_position: the remainder panics when num_bits is 0
BitPosition(f, h, i) == RemU64(WrappingAdd(h[1], WrappingMul(i, h[2])), f.num_bits)

\* the byte of set_bit and get_bit is bits[bit / 8], the bit is 1 << (bit % 8)
BitIsSet(byte, offset) == (byte \div (2 ^ offset)) % 2 = 1

SetBit(bits, bit) ==
    IF bit \div 8 < Len(bits) /\ ~BitIsSet(bits[(bit \div 8) + 1], bit % 8)
    THEN [bits EXCEPT ![(bit \div 8) + 1] = @ + 2 ^ (bit % 8)]
    ELSE bits

GetBit(bits, bit) == bit \div 8 < Len(bits) /\ BitIsSet(bits[(bit \div 8) + 1], bit % 8)

\* BloomFilter::add with hash_key(key) = h: the bits of rounds i..num_hashes-1
RECURSIVE BloomSetFrom(_, _, _)
BloomSetFrom(f, h, i) ==
    IF i >= f.num_hashes THEN f
    ELSE BloomSetFrom([f EXCEPT !.bits = SetBit(f.bits, BitPosition(f, h, i))], h, i + 1)

BloomAdd(f, h) ==
    IF f.num_bits = 0 THEN [res |-> "Panic", filter |-> f]
    ELSE [res |-> "Ok", filter |-> BloomSetFrom(f, h, 0)]

\* BloomFilter::may_contain with hash_key(key) = h
MayContain(f, h) ==
    IF f.num_bits = 0 THEN "Panic"
    ELSE IF \A i \in 0..(f.num_hashes - 1) : GetBit(f.bits, BitPosition(f, h, i))
    THEN "true" ELSE "false"

\* --------------------------------------------------- SkipList, node level
\* const MAX_LEVEL
MAX_LEVEL == 16

\* MemTableKey values of the MemTable checked on its own
MtSeries == {1, 2}
MtTimestamps == {1, 2}
MtKeys == MtSeries \X MtTimestamps
MtVersions == {1, 2}
\* the node heights random_level draws here, out of 1..MAX_LEVEL
Heights == {1, 3}
\* TimeRange::new(i64::MIN, i64::MAX) of this timestamp domain
MtFullRange == <<0, 3>>

KeyLt(a, b) == KeyLeq(a, b) /\ a # b

\* SkipList::new. A node is its index in nodes; 0 is the head as a position
\* and None as a forward pointer
NewSkipList == [head |-> SubSeq([i \in 1..64 |-> 0], 1, MAX_LEVEL), nodes |-> <<>>,
                level |-> 1, len |-> 0]

\* (*node).forward[i]
Forward(l, node, i) == IF node = 0 THEN l.head[i + 1] ELSE l.nodes[node].forward[i + 1]

\* while let Some(next) = (*current).forward[i] { if next_key < key .. }
RECURSIVE Advance(_, _, _, _)
Advance(l, current, i, key) ==
    IF Forward(l, current, i) # 0 /\ KeyLt(l.nodes[Forward(l, current, i)].key, key)
    THEN Advance(l, Forward(l, current, i), i, key)
    ELSE current

\* for i in (0..self.level).rev(): the position reached at level 0 and the
\* update pointers collected on the way, from level i down
RECURSIVE Descend(_, _, _, _, _)
Descend(l, current, i, key, update) ==
    IF i < 0 THEN [current |-> current, update |-> update]
    ELSE Only({Descend(l, c, i - 1, key, [update EXCEPT ![i + 1] = c]) :
               c \in {Advance(l, current, i, key)}})

\* forward pointers: (*prev).forward[i] = Some(new) for prev = update[i]
SetForward(l, prev, i, new) ==
    IF prev = 0 THEN [l EXCEPT !.head[i + 1] = new]
    ELSE [l EXCEPT !.nodes[prev].forward[i + 1] = new]

RECURSIVE LinkFrom(_, _, _, _, _)
LinkFrom(l, update, new, i, level) ==
    IF i >= level THEN l
    ELSE LinkFrom(SetForward([l EXCEPT !.nodes[new].forward[i + 1] =
                                          Forward(l, update[i + 1], i)],
                             update[i + 1], i, new),
                  update, new, i + 1, level)

\* SkipList::insert without the check for an existing key
SkipListInsertAlways(l, key, value, level) ==
    Only({LinkFrom([l EXCEPT !.nodes = Append(@, [key |-> key, value |-> value,
                                                  forward |-> SubSeq([i \in 1..MAX_LEVEL |-> 0],
                                                                    1, level)]),
                             !.level = IF level > @ THEN level ELSE @,
                             !.len = @ + 1],
                    [i \in 1..MAX_LEVEL |->
                       IF i > l.level /\ i <= level THEN 0 ELSE d.update[i]],
                    Len(l.nodes) + 1, 0, level) :
          d \in {Descend(l, 0, l.level - 1, key, [i \in 1..MAX_LEVEL |-> -1])}})

\* SkipList::insert(key, value) with random_level() = level
SkipListInsert(l, key, value, level) ==
    Only({IF next # 0 /\ l.nodes[next].key = key
          THEN [l EXCEPT !.nodes[next].value = value]
          ELSE SkipListInsertAlways(l, key, value, level) :
          next \in {Forward(l, Descend(l, 0, l.level - 1, key,
                                       [i \in 1..MAX_LEVEL |-> -1]).current, 0)}})

\* SkipList::get: levels from the top, Less advances, Equal returns, Greater
\* goes one level down
RECURSIVE SkipListGet(_, _, _, _)
SkipListGet(l, current, i, key) ==
    IF i < 0 THEN [some |-> FALSE, value |-> 0]
    ELSE Only({IF next = 0 THEN SkipListGet(l, current, i - 1, key)
               ELSE IF KeyLt(l.nodes[next].key, key) THEN SkipListGet(l, next, i, key)
               ELSE IF l.nodes[next].key = key THEN [some |-> TRUE, value |-> l.nodes[next].value]
               ELSE SkipListGet(l, current, i - 1, key) :
               next \in {Forward(l, current, i)}})

\* the collecting loop of SkipList::range at level 0
RECURSIVE Collect(_, _, _, _)
Collect(l, current, start, end) ==
    Only({IF next = 0 \/ KeyLt(end, l.nodes[next].key) THEN <<>>
          ELSE (IF KeyLeq(start, l.nodes[next].key)
                THEN <<[key |-> l.nodes[next].key, value |-> l.nodes[next].value]>>
                ELSE <<>>) \o Collect(l, next, start, end) :
          next \in {Forward(l, current, 0)}})

\* SkipList::range(start, end)
SkipListRange(l, start, end) ==
    Collect(l, Descend(l, 0, l.level - 1, start, [i \in 1..MAX_LEVEL |-> -1]).current,
            start, end)

\* SkipList::iter
RECURSIVE SkipListIter(_, _)
SkipListIter(l, current) ==
    IF Forward(l, current, 0) = 0 THEN <<>>
    ELSE <<[key |-> l.nodes[Forward(l, current, 0)].key,
            value |-> l.nodes[Forward(l, current, 0)].value]>>
         \o SkipListIter(l, Forward(l, current, 0))

\* MemTable::new, on the node-level list
NewListMemTable(id) == [id |-> id, data |-> NewSkipList, size_bytes |-> 0]

\* MemTable::insert(point) with random_level() = level: the size of the
\* entry is added whether the key was new or not
MemTableInsert(mt, point, level) ==
    [mt EXCEPT !.data = SkipListInsert(@, point.key, point.fields, level),
               !.size_bytes = @ + EntrySize]

\* MemTable::insert_batch(points) with random_level() = heights[i] for point i
RECURSIVE InsertPoints(_, _, _)
InsertPoints(l, points, heights) ==
    IF points = <<>> THEN l
    ELSE InsertPoints(SkipListInsert(l, Head(points).key, Head(points).fields, Head(heights)),
                      Tail(points), Tail(heights))

MemTableInsertBatch(mt, points, heights) ==
    [mt EXCEPT !.data = InsertPoints(@, points, heights),
               !.size_bytes = @ + (EntrySize * Len(points))]

\* MemTable::query with an exclusive end bound
MemTableQueryHalfOpen(mt, series_key, start, end) ==
    LET hits == SelectSeq(SkipListRange(mt.data, <<series_key, start>>, <<series_key, end - 1>>),
                          LAMBDA e : e.key[1] = series_key)
    IN [i \in 1..Len(hits) |-> [timestamp |-> hits[i].key[2], fields |-> hits[i].value]]

\* MemTable::query(series_key, time_range)
MemTableQuery(mt, series_key, start, end) ==
    LET hits == SelectSeq(SkipListRange(mt.data, <<series_key, start>>, <<series_key, end>>),
                          LAMBDA e : e.key[1] = series_key)
    IN [i \in 1..Len(hits) |-> [timestamp |-> hits[i].key[2], fields |-> hits[i].value]]

\* MemTable::contains_series(series_key): range(start_key, start_key) with
\* start_key = (series_key, i64::MIN)
MemTableContainsSeries(mt, series_key) ==
    LET start_key == <<series_key, MtFullRange[1]>>
        hits == SkipListRange(mt.data, start_key, start_key)
    IN \E i \in 1..Len(hits) : hits[i].key[1] = series_key

\* ----------------------------------------------------- SSTable file, bytes
\* A String is the sequence of its bytes; str Ord is the order of the bytes
\* ',' and '='
Comma == <<44>>
Equals == <<61>>

RECURSIVE StrLt(_, _)
StrLt(a, b) ==
    IF b = <<>> THEN FALSE
    ELSE IF a = <<>> THEN TRUE
    ELSE IF Head(a) # Head(b) THEN Head(a) < Head(b)
    ELSE StrLt(Tail(a), Tail(b))

\* BTreeMap<String, String> as the sequence of its (key, value) pairs in key
\* order; its Ord compares the pairs one after the other
RECURSIVE TagsLt(_, _)
TagsLt(a, b) ==
    IF b = <<>> THEN FALSE
    ELSE IF a = <<>> THEN TRUE
    ELSE IF Head(a)[1] # Head(b)[1] THEN StrLt(Head(a)[1], Head(b)[1])
    ELSE IF Head(a)[2] # Head(b)[2] THEN StrLt(Head(a)[2], Head(b)[2])
    ELSE TagsLt(Tail(a), Tail(b))

\* SeriesKey: #[derive(Ord)] over measurement, then tags
SeriesKeyNew(measurement) == [measurement |-> measurement, tags |-> <<>>]
SeriesKeyLt(a, b) ==
    IF a.measurement # b.measurement THEN StrLt(a.measurement, b.measurement)
    ELSE TagsLt(a.tags, b.tags)
SeriesKeyLeq(a, b) == a = b \/ SeriesKeyLt(a, b)

\* SeriesKey::with_tag: BTreeMap::insert
WithTag(key, k, v) ==
    LET others == SelectSeq(key.tags, LAMBDA t : t[1] # k)
        before == SelectSeq(others, LAMBDA t : StrLt(t[1], k))
        after == SelectSeq(others, LAMBDA t : StrLt(k, t[1]))
    IN [key EXCEPT !.tags = before \o <<<<k, v>>>> \o after]

\* SeriesKey::canonical: measurement, then ",k=v" per tag
RECURSIVE CanonicalTags(_)
CanonicalTags(tags) ==
    IF tags = <<>> THEN <<>>
    ELSE Comma \o Head(tags)[1] \o Equals \o Head(tags)[2] \o CanonicalTags(Tail(tags))
Canonical(key) == key.measurement \o CanonicalTags(key.tags)

\* the position of the first byte c in s, 0 if there is none
FirstAt(s, c) ==
    IF \E i \in 1..Len(s) : s[i] = c
    THEN CHOOSE i \in 1..Len(s) : s[i] = c /\ \A j \in 1..(i - 1) : s[j] # c
    ELSE 0

\* str::split(',')
RECURSIVE Split(_, _)
Split(s, c) ==
    IF FirstAt(s, c) = 0 THEN <<s>>
    ELSE <<SubSeq(s, 1, FirstAt(s, c) - 1)>> \o Split(SubSeq(s, FirstAt(s, c) + 1, Len(s)), c)

\* the loop of parse_series_key over the tags: split_once('=') and with_tag
RECURSIVE ParseTags(_, _)
ParseTags(key, parts) ==
    IF parts = <<>> THEN key
    ELSE LET tag == Head(parts)
             eq == FirstAt(tag, Equals[1])
         IN ParseTags(IF eq = 0 THEN key
                      ELSE WithTag(key, SubSeq(tag, 1, eq - 1), SubSeq(tag, eq + 1, Len(tag))),
                      Tail(parts))

\* SSTableReader::parse_series_key: splitn(2, ','), then the tags
ParseSeriesKey(canonical) ==
    LET at == FirstAt(canonical, Comma[1])
    IN IF at = 0 THEN SeriesKeyNew(canonical)
       ELSE ParseTags(SeriesKeyNew(SubSeq(canonical, 1, at - 1)),
                      Split(SubSeq(canonical, at + 1, Len(canonical)), Comma[1]))

\* i64 order on two's complement bits
I64Lt(a, b) ==
    IF a[1] # b[1] THEN a[1] = 1
    ELSE \E i \in 2..64 : a[i] < b[i] /\ \A j \in 2..(i - 1) : a[j] = b[j]
I64Leq(a, b) == a = b \/ I64Lt(a, b)

\* put_u16_le, put_u32_le, put_i64_le and what get_*_le reads at byte pos
\* (from 0); a u32 of 2^24 or more, too big for any length here, reads as 2^24
U32Cap == 2 ^ 24
LE16(v) == <<v % 256, (v \div 256) % 256>>
LE32(v) == <<v % 256, (v \div 256) % 256, (v \div 65536) % 256, (v \div U32Cap) % 256>>
LE64(v) == LE32(v) \o <<0, 0, 0, 0>>
I64LE(bits) == SubSeq([i \in 1..8 |-> ToNat(SubSeq(bits, 65 - 8 * i, 72 - 8 * i))], 1, 8)
GetU16(data, pos) == data[pos + 1] + 256 * data[pos + 2]
GetU32(data, pos) ==
    IF data[pos + 4] # 0 THEN U32Cap
    ELSE data[pos + 1] + 256 * data[pos + 2] + 65536 * data[pos + 3]
GetI64(data, pos) ==
    SubSeq([j \in 1..64 |->
              (data[pos + 8 - ((j - 1) \div 8)] \div (2 ^ (7 - ((j - 1) % 8)))) % 2], 1, 64)

\* BitWriter / BitReader: eight bits a byte, the first bit the highest
BitsToBytes(bits) ==
    SubSeq([i \in 1..(Len(bits) \div 8) |-> ToNat(SubSeq(bits, 8 * i - 7, 8 * i))],
           1, Len(bits) \div 8)
BytesToBits(bs) ==
    SubSeq([j \in 1..(8 * Len(bs)) |->
              (bs[((j - 1) \div 8) + 1] \div (2 ^ (7 - ((j - 1) % 8)))) % 2], 1, 8 * Len(bs))

\* String::from_utf8 on the bytes met here: ASCII and two-byte sequences
RECURSIVE IsUtf8(_)
IsUtf8(bs) ==
    IF bs = <<>> THEN TRUE
    ELSE IF Head(bs) < 128 THEN IsUtf8(Tail(bs))
    ELSE /\ Head(bs) \in 194..223 /\ Len(bs) >= 2 /\ bs[2] \in 128..191
         /\ IsUtf8(Tail(Tail(bs)))

\* lz4_flex::compress_prepend_size: the uncompressed size as u32, then the
\* stream, which is the literal bytes here
Lz4CompressPrependSize(data) == LE32(Len(data)) \o data

\* lz4_flex::decompress_size_prepended: an error unless the stream gives
\* exactly the announced size
Lz4DecompressSizePrepended(raw) ==
    IF Len(raw) < 4 \/ GetU32(raw, 0) # Len(raw) - 4
    THEN [res |-> "Compression", data |-> <<>>]
    ELSE [res |-> "Ok", data |-> SubSeq(raw, 5, Len(raw))]

\* DataBlock::to_bytes(use_lz4)
ToBytes(b, use_lz4) ==
    Only({buf \o LE32(Crc32(Bytes(buf))) :
          buf \in {LE16(Len(b.field_name)) \o b.field_name \o LE32(b.count)
                   \o I64LE(b.first_timestamp) \o I64LE(b.last_timestamp)
                   \o (IF use_lz4
                       THEN Only({<<1>> \o LE32(Len(c)) \o c :
                                  c \in {Lz4CompressPrependSize(b.data)}})
                       ELSE <<0>> \o LE32(Len(b.data)) \o b.data)}})

\* DataBlock::from_bytes, after the field name: pos is where the metadata
\* starts. A get_*_le or a slice beyond the data panics
FromBytesAt(data, field_name, pos) ==
    IF pos + 25 > Len(data) THEN [res |-> "Panic"]
    ELSE LET data_len == GetU32(data, pos + 21)
             start == pos + 25
             checksum_pos == start + data_len
         IN IF checksum_pos > Len(data) THEN [res |-> "Panic"]
            ELSE Only({
               IF data[pos + 21] = 1 /\ block_data.res # "Ok" THEN [res |-> "Compression"]
               ELSE IF checksum_pos + 4 > Len(data) THEN [res |-> "InvalidFormat"]
               ELSE IF GetU32(data, checksum_pos)
                          # Crc32(Bytes(SubSeq(data, 1, checksum_pos)))
               THEN [res |-> "ChecksumMismatch"]
               ELSE [res |-> "Ok",
                     block |-> [field_name |-> field_name, data |-> block_data.data,
                                count |-> GetU32(data, pos),
                                first_timestamp |-> GetI64(data, pos + 4),
                                last_timestamp |-> GetI64(data, pos + 12)]] :
               block_data \in {IF data[pos + 21] = 1
                               THEN Lz4DecompressSizePrepended(
                                       SubSeq(data, start + 1, checksum_pos))
                               ELSE [res |-> "Ok",
                                     data |-> SubSeq(data, start + 1, checksum_pos)]}})

\* DataBlock::from_bytes
FromBytes(data) ==
    IF Len(data) < 10 THEN [res |-> "InvalidFormat"]
    ELSE IF 2 + GetU16(data, 0) > Len(data) THEN [res |-> "Panic"]
    ELSE IF ~IsUtf8(SubSeq(data, 3, 2 + GetU16(data, 0))) THEN [res |-> "InvalidFormat"]
    ELSE FromBytesAt(data, SubSeq(data, 3, 2 + GetU16(data, 0)), 2 + GetU16(data, 0))


\* the strings of S in ascending order (the iteration order of a BTreeMap)
RECURSIVE AscStrings(_)
AscStrings(S) ==
    IF S = {} THEN <<>>
    ELSE LET m == CHOOSE x \in S : \A y \in S : x = y \/ StrLt(x, y)
         IN <<m>> \o AscStrings(S \ {m})

RECURSIVE AscI64(_)
AscI64(S) ==
    IF S = {} THEN <<>>
    ELSE LET m == CHOOSE x \in S : \A y \in S : I64Leq(x, y)
         IN <<m>> \o AscI64(S \ {m})

\* SSTableBuilder::new: BloomFilter::new(1000, 10), which is 10000 bits in
\* 1250 bytes with 7 hashes. The filter is the set of the keys added: the
\* reader's from_bytes restores the same 10000 bits, so that an added key is
\* always reported, and a key reported by chance meets no index entry
NewBuilder ==
    [blocks |-> <<>>, current_blocks |-> <<>>, current_series |-> <<>>,
     bloom_filter |-> [len |-> (1000 * 10 + 7) \div 8, num_hashes |-> NumHashes(10),
                       keys |-> {}],
     entry_count |-> 0, min_timestamp |-> I64Max, max_timestamp |-> I64Min,
     min_key |-> <<>>, max_key |-> <<>>, panicked |-> FALSE]

\* SSTableBuilder::flush_current_series: the BlockBuilders of the series are
\* finished in field-name order
FlushCurrentSeries(b) ==
    IF DOMAIN b.current_blocks = {} THEN b
    ELSE LET names == AscStrings(DOMAIN b.current_blocks)
             blocks == [i \in 1..Len(names) |->
                          Only({[field_name |-> names[i], data |-> BitsToBytes(c.data),
                                 count |-> c.count, first_timestamp |-> c.first_timestamp,
                                 last_timestamp |-> c.last_timestamp] :
                                c \in {Finish(b.current_blocks[names[i]])}})]
         IN [b EXCEPT !.current_series = <<>>, !.current_blocks = <<>>,
                      !.blocks = Append(@, [series_key |-> b.current_series[1],
                                            blocks |-> SubSeq(blocks, 1, Len(names))])]

\* the loop of SSTableBuilder::add over the fields: BlockBuilder::add on the
\* builder of each field, created when the field is new
RECURSIVE AddFields(_, _, _, _, _)
AddFields(current_blocks, names, timestamp, fields, checks) ==
    IF names = <<>> THEN current_blocks
    ELSE Only({AddFields([n \in DOMAIN current_blocks \cup {Head(names)} |->
                            IF n = Head(names) THEN e ELSE current_blocks[n]],
                         Tail(names), timestamp, fields, checks) :
               e \in {Encode(IF Head(names) \in DOMAIN current_blocks
                             THEN current_blocks[Head(names)] ELSE NewEncoder,
                             timestamp, fields[Head(names)], checks)}})

\* SSTableBuilder::add(key, point)
BuilderAdd(b, key, point, checks) ==
    Only({Only({[s EXCEPT !.entry_count = @ + 1,
                          !.min_timestamp = IF I64Lt(point.timestamp, @)
                                            THEN point.timestamp ELSE @,
                          !.max_timestamp = IF I64Lt(@, point.timestamp)
                                            THEN point.timestamp ELSE @,
                          !.min_key = IF @ = <<>> THEN <<key>> ELSE @,
                          !.max_key = <<key>>,
                          !.current_blocks = cb,
                          !.panicked = \E n \in DOMAIN cb : cb[n].panicked] :
                cb \in {AddFields(s.current_blocks, AscStrings(DOMAIN point.fields),
                                  point.timestamp, point.fields, checks)}}) :
          s \in {IF b.current_series # <<key>>
                 THEN [FlushCurrentSeries(b) EXCEPT
                          !.current_series = <<key>>,
                          !.bloom_filter.keys = @ \cup {Canonical(key)}]
                 ELSE b}})

\* the loop of build_from_memtable over ImmutableMemTable::iter
RECURSIVE AddAll(_, _, _)
AddAll(b, entries, checks) ==
    IF entries = <<>> \/ b.panicked THEN b
    ELSE Only({AddAll(n, Tail(entries), checks) :
               n \in {BuilderAdd(b, Head(entries).key,
                                 [timestamp |-> Head(entries).timestamp,
                                  fields |-> Head(entries).fields], checks)}})

\* the loop of SSTableBuilder::finish over the blocks: their bytes, one
\* after the other from byte 32 on, and an index entry for each
RECURSIVE WriteBlocks(_, _, _, _)
WriteBlocks(blocks, use_lz4, offset, out) ==
    IF blocks = <<>> THEN out
    ELSE IF Head(blocks).blocks = <<>>
    THEN WriteBlocks(Tail(blocks), use_lz4, offset, out)
    ELSE Only({WriteBlocks(<<[Head(blocks) EXCEPT !.blocks = Tail(@)]>> \o Tail(blocks),
                           use_lz4, offset + Len(bytes),
                           [data |-> out.data \o bytes,
                            index |-> Append(out.index,
                               [series_key |-> Head(blocks).series_key,
                                field_name |-> Head(Head(blocks).blocks).field_name,
                                offset |-> offset, size |-> Len(bytes),
                                min_time |-> Head(Head(blocks).blocks).first_timestamp,
                                max_time |-> Head(Head(blocks).blocks).last_timestamp])]) :
               bytes \in {ToBytes(Head(Head(blocks).blocks), use_lz4)}})

\* SSTableBuilder::write_index: the entries with the canonical string of
\* their series, and the bytes the index takes
WriteIndex(index_entries) ==
    [i \in 1..Len(index_entries) |->
       [series_key |-> Canonical(index_entries[i].series_key),
        field_name |-> index_entries[i].field_name,
        offset |-> index_entries[i].offset, size |-> index_entries[i].size,
        min_time |-> index_entries[i].min_time, max_time |-> index_entries[i].max_time]]

RECURSIVE IndexSize(_)
IndexSize(index) ==
    IF index = <<>> THEN 4
    ELSE 2 + Len(Head(index).series_key) + 2 + Len(Head(index).field_name) + 8 + 4 + 8 + 8
         + IndexSize(Tail(index))

\* SSTableBuilder::finish: header (32 bytes), blocks, index, bloom filter
\* (u32, u8, bytes), footer (36 bytes); the metadata counts 32 for the footer
BuilderFinish(b0, id, level, use_lz4) ==
    Only({Only({
        LET index == WriteIndex(w.index)
            index_offset == 32 + Len(w.data)
            bloom_offset == index_offset + IndexSize(index)
            bloom_size == 4 + 1 + b.bloom_filter.len
        IN [res |-> "Ok",
            file |-> [header |-> [version |-> 1, entry_count |-> b.entry_count,
                                  min_timestamp |-> b.min_timestamp,
                                  max_timestamp |-> b.max_timestamp],
                      data |-> w.data, index |-> index, bloom |-> b.bloom_filter,
                      footer |-> [index_offset |-> index_offset,
                                  index_size |-> IndexSize(index),
                                  bloom_offset |-> bloom_offset,
                                  bloom_size |-> bloom_size]],
            meta |-> [id |-> id, level |-> level, entry_count |-> b.entry_count,
                      file_size |-> bloom_offset + bloom_size + 32,
                      min_timestamp |-> b.min_timestamp,
                      max_timestamp |-> b.max_timestamp,
                      min_key |-> IF b.min_key = <<>> THEN SeriesKeyNew(<<>>)
                                  ELSE b.min_key[1],
                      max_key |-> IF b.max_key = <<>> THEN SeriesKeyNew(<<>>)
                                  ELSE b.max_key[1]]] :
        w \in {WriteBlocks(b.blocks, use_lz4, 32, [data |-> <<>>, index |-> <<>>])}}) :
      b \in {FlushCurrentSeries(b0)}})

\* SSTableBuilder::build_from_memtable
BuildTable(entries, id, level, use_lz4, checks) ==
    Only({IF b.panicked THEN [res |-> "Panic"] ELSE BuilderFinish(b, id, level, use_lz4) :
          b \in {AddAll(NewBuilder, entries, checks)}})

\* the length of the file
FileLen(file) == file.footer.bloom_offset + file.footer.bloom_size + 36

\* SSTableReader::open
OpenTable(file) ==
    [meta |-> [id |-> 0, level |-> 0, entry_count |-> file.header.entry_count,
               file_size |-> FileLen(file),
               min_timestamp |-> file.header.min_timestamp,
               max_timestamp |-> file.header.max_timestamp,
               min_key |-> IF file.index = <<>> THEN SeriesKeyNew(<<>>)
                           ELSE ParseSeriesKey(file.index[1].series_key),
               max_key |-> IF file.index = <<>> THEN SeriesKeyNew(<<>>)
                           ELSE ParseSeriesKey(file.index[Len(file.index)].series_key)],
     index |-> file.index, bloom_filter |-> file.bloom, cache |-> <<>>]

\* SSTableReader::read_block: the cached block of the offset if there is
\* one, else DataBlock::from_bytes on the bytes of the file, cached when Ok
ReadBlock(cache, file, offset, size) ==
    IF offset \in DOMAIN cache THEN [res |-> "Ok", block |-> cache[offset], cache |-> cache]
    ELSE Only({IF r.res # "Ok" THEN [res |-> r.res, cache |-> cache]
               ELSE [res |-> "Ok", block |-> r.block,
                     cache |-> [o \in DOMAIN cache \cup {offset} |->
                                  IF o = offset THEN r.block ELSE cache[o]]] :
               r \in {FromBytes(SubSeq(file.data, offset - 32 + 1, offset - 32 + size))}})

\* the points of a block inside the range, put into the map of the fields
\* per timestamp
RECURSIVE MergePoints(_, _, _, _)
MergePoints(field_data, points, field_name, q) ==
    IF points = <<>> THEN field_data
    ELSE LET ts == Head(points)[1]
             old == IF ts \in DOMAIN field_data THEN field_data[ts] ELSE <<>>
         IN MergePoints(
              IF I64Leq(q.start, ts) /\ I64Leq(ts, q.end)
              THEN [t \in DOMAIN field_data \cup {ts} |->
                      IF t = ts
                      THEN [n \in DOMAIN old \cup {field_name} |->
                              IF n = field_name THEN Head(points)[2] ELSE old[n]]
                      ELSE field_data[t]]
              ELSE field_data,
              Tail(points), field_name, q)

\* the loop of SSTableReader::query over the index
RECURSIVE ScanIndex(_, _, _, _, _)
ScanIndex(index, cache, field_data, file, q) ==
    IF index = <<>> THEN [res |-> "Ok", field_data |-> field_data, cache |-> cache]
    ELSE IF Head(index).series_key # q.key_str
            \/ I64Lt(Head(index).max_time, q.start) \/ I64Lt(q.end, Head(index).min_time)
    THEN ScanIndex(Tail(index), cache, field_data, file, q)
    ELSE Only({
       IF r.res # "Ok" THEN [res |-> r.res, field_data |-> <<>>, cache |-> r.cache]
       ELSE Only({
          IF d.res # "Ok" THEN [res |-> d.res, field_data |-> <<>>, cache |-> r.cache]
          ELSE ScanIndex(Tail(index), r.cache,
                         MergePoints(field_data, d.points, Head(index).field_name, q),
                         file, q) :
          d \in {DecodeAll(BytesToBits(r.block.data), r.block.count, q.checks)}}) :
       r \in {ReadBlock(cache, file, Head(index).offset, Head(index).size)}})

\* SSTableReader::query(series_key, time_range)
TableQuery(reader, file, series_key, start, end, checks) ==
    IF I64Lt(end, reader.meta.min_timestamp) \/ I64Lt(reader.meta.max_timestamp, start)
       \/ Canonical(series_key) \notin reader.bloom_filter.keys
    THEN [res |-> "Ok", points |-> <<>>, cache |-> reader.cache]
    ELSE Only({
       IF s.res # "Ok" THEN [res |-> s.res, points |-> <<>>, cache |-> s.cache]
       ELSE Only({[res |-> "Ok",
                   points |-> [i \in 1..Len(tss) |->
                                 [timestamp |-> tss[i], fields |-> s.field_data[tss[i]]]],
                   cache |-> s.cache] :
                  tss \in {AscI64(DOMAIN s.field_data)}}) :
       s \in {ScanIndex(reader.index, reader.cache, <<>>, file,
                        [key_str |-> Canonical(series_key), start |-> start, end |-> end,
                         checks |-> checks])}})


\* the loop of SSTableReader::query_field over the index
RECURSIVE ScanField(_, _, _, _, _)
ScanField(index, cache, results, file, q) ==
    IF index = <<>> THEN [res |-> "Ok", points |-> results, cache |-> cache]
    ELSE IF Head(index).series_key # q.key_str \/ Head(index).field_name # q.field_name
            \/ I64Lt(Head(index).max_time, q.start) \/ I64Lt(q.end, Head(index).min_time)
    THEN ScanField(Tail(index), cache, results, file, q)
    ELSE Only({
       IF r.res # "Ok" THEN [res |-> r.res, points |-> <<>>, cache |-> r.cache]
       ELSE Only({
          IF d.res # "Ok" THEN [res |-> d.res, points |-> <<>>, cache |-> r.cache]
          ELSE ScanField(Tail(index), r.cache,
                         results \o SelectSeq(d.points, LAMBDA p : I64Leq(q.start, p[1])
                                                                   /\ I64Leq(p[1], q.end)),
                         file, q) :
          d \in {DecodeAll(BytesToBits(r.block.data), r.block.count, q.checks)}}) :
       r \in {ReadBlock(cache, file, Head(index).offset, Head(index).size)}})

\* SSTableReader::query_field(series_key, field_name, time_range)
TableQueryField(reader, file, series_key, field_name, start, end, checks) ==
    IF I64Lt(end, reader.meta.min_timestamp) \/ I64Lt(reader.meta.max_timestamp, start)
       \/ Canonical(series_key) \notin reader.bloom_filter.keys
    THEN [res |-> "Ok", points |-> <<>>, cache |-> reader.cache]
    ELSE ScanField(reader.index, reader.cache, <<>>, file,
                   [key_str |-> Canonical(series_key), field_name |-> field_name,
                    start |-> start, end |-> end, checks |-> checks])

\* ------------------------------------------------------------- BlockCache
\* BlockCache::new(max_size); a held block is kept by the length of its data
NewBlockCache(max_size) == [blocks |-> <<>>, max_size |-> max_size, current_size |-> 0]

\* BTreeMap::remove
MapRemove(map, key) == [k \in DOMAIN map \ {key} |-> map[k]]

\* BTreeMap::insert
MapPut(map, key, value) == [k \in DOMAIN map \cup {key} |-> IF k = key THEN value ELSE map[k]]

\* BlockCache::insert: when the new block does not fit, the entry with the
\* lowest offset is removed, once; then the block is inserted
BlockCacheInsert(c, offset, size) ==
    LET full == c.current_size + size > c.max_size /\ DOMAIN c.blocks # {}
        key == CHOOSE x \in DOMAIN c.blocks : \A y \in DOMAIN c.blocks : x <= y
        c1 == IF full THEN [c EXCEPT !.blocks = MapRemove(@, key),
                                     !.current_size = @ - c.blocks[key]]
              ELSE c
    IN [c1 EXCEPT !.current_size = @ + size, !.blocks = MapPut(@, offset, size)]

\* the offset of block i of a file whose blocks have the lengths lens
RECURSIVE BlockOffset(_, _)
BlockOffset(lens, i) == IF i = 1 THEN 32 ELSE BlockOffset(lens, i - 1) + lens[i - 1]

\* the total length of the blocks a cache holds
RECURSIVE HeldSize(_)
HeldSize(blocks) ==
    IF DOMAIN blocks = {} THEN 0
    ELSE LET key == CHOOSE x \in DOMAIN blocks : TRUE
         IN blocks[key] + HeldSize(MapRemove(blocks, key))

\* ------------------------------------------------- lock acquisitions
\* The locks of a Database: memtable (RwLock), the data lock of the live
\* MemTable's skip list (RwLock), the data lock of a MemTable that left the
\* live slot ("imm_data"), immutable_memtables (Mutex), sstables (RwLock),
\* the inner Mutex of the WalWriter and the cache RwLock of an SSTableReader.
\* A call is the sequence of acquisitions and of guard drops it makes; a
\* Mutex is taken in mode "W".
Acq(lock, mode) == <<"acquire", lock, mode>>
Rel(lock, mode) == <<"release", lock, mode>>

\* a guard held over the steps in body
Holding(lock, mode, body) == <<Acq(lock, mode)>> \o body \o <<Rel(lock, mode)>>

\* every concatenation of a path of A with a path of B
Then(A, B) == {a \o b : a \in A, b \in B}

\* WalWriter::append
WalAppendLocks == {Holding("inner", "W", <<>>)}

\* SSTableReader::read_block: a cache hit, or a miss that inserts the block
ReadBlockLocks == {Holding("cache", "R", <<>>),
                   Holding("cache", "R", <<>>) \o Holding("cache", "W", <<>>)}

\* flush_immutable: the queue is empty, or its head is built and registered;
\* truncate_before takes no lock
FlushImmutableLocks ==
    {Holding("immutable_memtables", "W", <<>>),
     Holding("immutable_memtables", "W", <<>>) \o Holding("imm_data", "R", <<>>)
        \o Holding("sstables", "W", <<>>)}

\* maybe_flush: under memtable.write() the size limit is checked and the
\* MemTable swapped, then the push, then flush_immutable
MaybeFlushLocks ==
    {Holding("memtable", "W", <<>>)}
    \cup Then({Holding("memtable", "W", <<>>) \o Holding("immutable_memtables", "W", <<>>)},
              FlushImmutableLocks)

\* Database::write whose read guard of the should_flush test lives on over
\* the call of maybe_flush
WriteLocksGuardKept ==
    Then(WalAppendLocks,
         {Holding("memtable", "R", Holding("data", "W", <<>>))
             \o Holding("memtable", "R", <<>>)}
         \cup {Holding("memtable", "R", Holding("data", "W", <<>>))
                  \o Holding("memtable", "R", p) : p \in MaybeFlushLocks})

\* Database::write: append, insert_batch under memtable.read(), the
\* should_flush test under a read guard dropped before the block of the if
WriteLocks ==
    Then(WalAppendLocks,
         Then({Holding("memtable", "R", Holding("data", "W", <<>>))
                  \o Holding("memtable", "R", <<>>)},
              {<<>>} \cup MaybeFlushLocks))

\* Database::flush
FlushLocks == MaybeFlushLocks

\* Database::query_series: three scopes, one after the other
QuerySeriesLocks ==
    Then({Holding("memtable", "R", Holding("data", "R", <<>>))},
         Then({Holding("immutable_memtables", "W", <<>>),
               Holding("immutable_memtables", "W", Holding("imm_data", "R", <<>>))},
              {Holding("sstables", "R", p) : p \in {<<>>} \cup ReadBlockLocks}))

\* Database::get_latest: every guard lives to the return, where the guards
\* are dropped in the reverse order of their declaration
GetLatestLocks ==
    {Holding("memtable", "R", Holding("data", "R", <<>>))}
    \cup {Holding("memtable", "R", Holding("data", "R", <<>>)
             \o Holding("immutable_memtables", "W", p)) :
          p \in {<<>>, Holding("imm_data", "R", <<>>)}}
    \cup {Holding("memtable", "R", Holding("data", "R", <<>>)
             \o Holding("immutable_memtables", "W", Holding("sstables", "R", p))) :
          p \in {<<>>} \cup ReadBlockLocks}

\* Database::stats: every guard is a temporary of its statement
StatsLocks ==
    {Holding("memtable", "R", <<>>) \o Holding("immutable_memtables", "W", <<>>)
        \o Holding("sstables", "R", <<>>) \o Holding("sstables", "R", <<>>)
        \o Holding("sstables", "R", <<>>)}

\* ------------------------------------------------------------------ state
VARIABLES
    walDir,               \* <db>/wal: segment id -> [recs, synced]
    sstFiles,             \* <db>/sst_<id>.flux: id -> file content
    dbOpen,               \* a Database value exists on this directory
    wal,                  \* WalWriterInner: segment_id, bytes_written, writes_since_sync
    sync_policy,          \* WalConfig.sync_policy
    memtable,             \* Database.memtable
    immutable_memtables,  \* Database.immutable_memtables
    sstables,             \* Database.sstables: readers [path, id, snap]
    next_memtable_id,
    next_sstable_id,
    pc,                   \* position of every thread inside its call
    call,                 \* the call a thread is running, or ran last
    old_memtable,         \* maybe_flush: the MemTable swapped out
    imm,                  \* flush_immutable: the MemTable taken off the queue
    sstable_id,           \* flush_immutable: the id allocated
    results,              \* query_series: points gathered so far
    nextOp,               \* number of the next write call
    acked,                \* key -> number of the last write that returned Ok for it
    failed,               \* numbers of the writes that returned an error
    lastWrite,            \* key -> number of the last write inserted into a MemTable
    opens,                \* Database::open calls so far
    faults,               \* I/O failures injected so far
    calls,                \* calls started so far
    segFiles,             \* a WAL directory, bytes: segment id -> file content
    segWriter,            \* WalWriterInner on that directory, with its BufWriter
    recovered,            \* what WalReader::recover returned on that directory
    appended,             \* entries handed to WalWriter::append, in order
    segLog,               \* segment id -> entries whose bytes reached the file
    damage,               \* where the directory was corrupted: segment, record
    levels,               \* CompactionScheduler.levels: level -> [level, files, size_bytes]
    task,                 \* the CompactionTask a worker got from select_compaction
    cpc,                  \* position of every compaction worker inside execute
    compFiles,            \* the scheduler's data_dir: path -> table content
    nextFileId,           \* id of the next SSTable registered with the scheduler
    databases,            \* StorageEngine.databases: the registered names
    dataDirs,             \* the directories under config.data_dir
    engCall,              \* the last call on the engine and what it returned
    eng_th,               \* the call of every client thread of the engine
    eng_opened,           \* name -> Database::open calls made by create_database
    encoder,              \* a GorillaEncoder
    encoded,              \* the points handed to GorillaEncoder::encode, in order
    block,                \* the CompressedBlock of GorillaEncoder::finish
    decoded,              \* what GorillaDecoder::decode_all returned on the block
    overflow_checks,      \* the build panics on integer overflow
    hash_key,             \* BloomFilter::hash_key: key -> (h1, h2)
    bloom,                \* a BloomFilter, and whether a call on it panicked
    added,                \* the keys handed to BloomFilter::add
    restored,             \* the filter rebuilt by BloomFilter::from_bytes
    mt,                   \* a MemTable over a node-level SkipList
    mt_map,               \* the last value inserted per key of mt
    mt_prev,              \* mt before the last call on it
    mt_call,              \* the last call on mt
    mt_inserts,           \* points handed to mt so far
    tb_mem,               \* the entries of an ImmutableMemTable, in iter order
    tb_cfg,               \* SSTableConfig.compression; overflow checks of the build
    tb_built,             \* what build_from_memtable returned
    tb_file,              \* the SSTable file
    tb_reader,            \* the SSTableReader opened on the file
    tb_query,             \* the last query on the reader and its result
    tb_damage,            \* the byte of the file that was changed
    bc_file,              \* the data lengths of the blocks of an SSTable file
    bc,                   \* the BlockCache of a reader on that file
    bc_reads,             \* read_block calls so far
    lk_prog,              \* thread -> the acquisitions and drops of its running call
    lk_pc,                \* thread -> its position in lk_prog
    lk_held,              \* thread -> the guards it holds: lock, mode
    lk_calls              \* calls started so far on the lock level

diskVars == <<walDir, sstFiles>>
dbVars == <<dbOpen, wal, sync_policy, memtable, immutable_memtables, sstables,
            next_memtable_id, next_sstable_id>>
flushVars == <<old_memtable, imm, sstable_id>>
thVars == <<pc, call, old_memtable, imm, sstable_id, results>>
ghostVars == <<nextOp, acked, failed, lastWrite, opens, faults, calls>>
walFileVars == <<segFiles, segWriter, recovered, appended, segLog, damage>>
compVars == <<levels, task, cpc, compFiles, nextFileId>>
engVars == <<databases, dataDirs, engCall, eng_th, eng_opened>>
codecVars == <<encoder, encoded, block, decoded, overflow_checks>>
bloomVars == <<hash_key, bloom, added, restored>>
memVars == <<mt, mt_map, mt_prev, mt_call, mt_inserts>>
tableVars == <<tb_mem, tb_cfg, tb_built, tb_file, tb_reader, tb_query, tb_damage>>
cacheVars == <<bc_file, bc, bc_reads>>
lockVars == <<lk_prog, lk_pc, lk_held, lk_calls>>
restVars == <<cacheVars, lockVars>>
unitVars == <<bloomVars, memVars, tableVars, restVars>>
libVars == <<walFileVars, compVars, engVars, codecVars, unitVars>>
nonWalVars == <<diskVars, dbVars, thVars, ghostVars, compVars, engVars, codecVars, unitVars>>
nonCompVars == <<diskVars, dbVars, thVars, ghostVars, walFileVars, engVars, codecVars, unitVars>>
nonEngVars == <<diskVars, dbVars, thVars, ghostVars, walFileVars, compVars, codecVars, unitVars>>
nonCodecVars == <<diskVars, dbVars, thVars, ghostVars, walFileVars, compVars, engVars, unitVars>>
nonUnitVars == <<diskVars, dbVars, thVars, ghostVars, walFileVars, compVars, engVars, codecVars>>
nonBloomVars == <<nonUnitVars, memVars, tableVars, restVars>>
nonMemVars == <<nonUnitVars, bloomVars, tableVars, restVars>>
nonTableVars == <<nonUnitVars, bloomVars, memVars, restVars>>
nonCacheVars == <<nonUnitVars, bloomVars, memVars, tableVars, lockVars>>
nonLockVars == <<nonUnitVars, bloomVars, memVars, tableVars, cacheVars>>
vars == <<diskVars, dbVars, thVars, ghostVars, libVars>>

NoCall == [type |-> "none", points |-> <<>>, op |-> 0, series |-> 0, lo |-> 0, hi |-> 0,
           status |-> "none", inserted |-> FALSE, walFailed |-> FALSE, snap |-> {},
           preNonEmpty |-> FALSE, preSst |-> 0, failedImm |-> -1, result |-> <<>>]

\* SSTableReader::open: header, index and bloom are read once; meta.id is 0
OpenReader(path) == [path |-> path, id |-> 0, snap |-> sstFiles[path]]

\* Database::open on a fresh directory with wal_config.sync_policy = policy
DatabaseOpen(policy) ==
    /\ walDir = OpenSegment(EmptyMap, 0)
    /\ sstFiles = EmptyMap
    /\ dbOpen = TRUE
    /\ wal = [segment_id |-> 0, bytes_written |-> 0, writes_since_sync |-> 0]
    /\ sync_policy = policy
    /\ memtable = NewMemTable(0)
    /\ immutable_memtables = <<>>
    /\ sstables = <<>>
    /\ next_memtable_id = 1
    /\ next_sstable_id = 1
    /\ pc = [t \in Threads |-> "idle"]
    /\ call = [t \in Threads |-> NoCall]
    /\ old_memtable = [t \in Threads |-> NoMemTable]
    /\ imm = [t \in Threads |-> NoMemTable]
    /\ sstable_id = [t \in Threads |-> 0]
    /\ results = [t \in Threads |-> <<>>]
    /\ nextOp = 1
    /\ acked = [k \in Keys |-> 0]
    /\ failed = {}
    /\ lastWrite = [k \in Keys |-> 0]
    /\ opens = 1
    /\ faults = 0
    /\ calls = 0

DatabaseInit == DatabaseOpen([kind |-> "Immediate", n |-> 0])

\* WalWriter::new on a fresh directory: wal_0 is created empty
WalFileInit(policy) ==
    /\ segFiles = [x \in {0} |-> <<>>]
    /\ segWriter = [sync_policy |-> policy, segment_id |-> 0, bytes_written |-> 0,
                    writes_since_sync |-> 0, buf |-> <<>>, bufRecs |-> <<>>]
    /\ recovered = [res |-> "none", entries |-> <<>>, synced |-> FALSE]
    /\ appended = <<>>
    /\ segLog = [x \in {0} |-> <<>>]
    /\ damage = [seg |-> -1, rec |-> 0]

\* CompactionScheduler::new on an empty data_dir
CompInit ==
    /\ levels = NewLevels
    /\ task = [w \in CompWorkers |-> IdleTask]
    /\ cpc = [w \in CompWorkers |-> "idle"]
    /\ compFiles = EmptyMap
    /\ nextFileId = 1

\* StorageEngine::new on an empty data_dir
EngineInit ==
    /\ databases = {}
    /\ dataDirs = {}
    /\ engCall = [op |-> "new", name |-> "", res |-> "Ok", seq |-> 0, seen |-> {}]
    /\ eng_th = [t \in Threads |-> [pc |-> "idle", op |-> "none", name |-> "", res |-> "none"]]
    /\ eng_opened = [name \in DbNames |-> 0]

NoBlock == [data |-> <<>>, count |-> -1, first_timestamp |-> Zero64, last_timestamp |-> Zero64]

\* GorillaEncoder::new in a build with or without overflow checks
CodecInit(checks) ==
    /\ encoder = NewEncoder
    /\ encoded = <<>>
    /\ block = NoBlock
    /\ decoded = [res |-> "none", points |-> <<>>]
    /\ overflow_checks = checks

NoFilter == [bits |-> <<>>, num_bits |-> -1, num_hashes |-> 0]

\* BloomFilter::new(num_keys, bits_per_key) with a hasher that maps keys by h
BloomInit(num_keys, bits_per_key, h) ==
    /\ hash_key = h
    /\ bloom = [res |-> "Ok", filter |-> NewBloomFilter(num_keys, bits_per_key)]
    /\ added = {}
    /\ restored = NoFilter

BloomUnitInit == BloomInit(1, 1, [key \in BloomKeys |-> <<U64Max, U64Max>>])

\* MemTable::new(1)
MemInit ==
    /\ mt = NewListMemTable(1)
    /\ mt_map = <<>>
    /\ mt_prev = NewListMemTable(1)
    /\ mt_call = [op |-> "new", points |-> <<>>, before |-> <<>>]
    /\ mt_inserts = 0

NoFile == [data |-> <<>>, index |-> <<>>]
NoReader == [index |-> <<>>]
NoDamage == [pos |-> 0, v |-> 0]

\* an ImmutableMemTable with its entries, before build_from_memtable
TableInit(entries, use_lz4, checks) ==
    /\ tb_mem = entries
    /\ tb_cfg = [compression |-> use_lz4, overflow_checks |-> checks]
    /\ tb_built = [res |-> "none", meta |-> <<>>]
    /\ tb_file = NoFile
    /\ tb_reader = NoReader
    /\ tb_query = [op |-> "none", key |-> <<>>, field_name |-> <<>>, start |-> Zero64,
                   end |-> Zero64, res |-> "none", points |-> <<>>, damaged |-> FALSE,
                   cached |-> {}]
    /\ tb_damage = NoDamage

\* BlockCache::new(max_size) of a reader on a file whose blocks have the
\* lengths lens
CacheInit(lens) ==
    /\ bc_file = lens
    /\ bc = NewBlockCache(CacheMaxSize)
    /\ bc_reads = 0

\* no call is running and no guard is held
LockInit ==
    /\ lk_prog = [t \in Threads |-> <<>>]
    /\ lk_pc = [t \in Threads |-> 0]
    /\ lk_held = [t \in Threads |-> {}]
    /\ lk_calls = 0

RestInit == CacheInit(<<>>) /\ LockInit

UnitInit == BloomUnitInit /\ MemInit /\ TableInit(<<>>, TRUE, TRUE) /\ RestInit

WalLibInit == WalFileInit([kind |-> "Immediate", n |-> 0])

\* everything outside the unit-level objects, freshly constructed
NonUnitInit == DatabaseInit /\ WalLibInit /\ CompInit /\ EngineInit /\ CodecInit(TRUE)

LibInit == WalLibInit /\ CompInit /\ EngineInit /\ CodecInit(TRUE) /\ UnitInit

Init == DatabaseInit /\ LibInit

\* ------------------------------------------------------------ call return
Ack(c) == [k \in Keys |-> IF \E i \in 1..Len(c.points) : c.points[i].key = k
                          THEN c.op ELSE acked[k]]

\* the call of thread t returns: c is its final call record
Return(t, c, status) ==
    /\ pc' = [pc EXCEPT ![t] = "idle"]
    /\ call' = [call EXCEPT ![t] = [c EXCEPT !.status = status]]
    /\ acked' = IF c.type = "write" /\ status = "Ok" THEN Ack(c) ELSE acked
    /\ failed' = IF c.type = "write" /\ status # "Ok" THEN failed \cup {c.op} ELSE failed

\* --------------------------------------------------------- Database::write
\* write, lines 95-96: the record is built and appended to the WAL
Write(t, b) ==
    /\ dbOpen /\ pc[t] = "idle"
    /\ nextOp <= MaxWrites /\ calls < MaxCalls
    /\ LET pts == PointsOf(nextOp, b)
           st == WalAppend(wal, walDir, WalRecord(nextOp, pts), sync_policy)
       IN /\ wal' = st.w
          /\ walDir' = st.dir
          /\ call' = [call EXCEPT ![t] = [NoCall EXCEPT !.type = "write", !.points = pts,
                                                        !.op = nextOp, !.status = "run"]]
    /\ pc' = [pc EXCEPT ![t] = "w_insert"]
    /\ nextOp' = nextOp + 1
    /\ calls' = calls + 1
    /\ UNCHANGED <<libVars, sstFiles, dbOpen, sync_policy, memtable, immutable_memtables, sstables,
                   next_memtable_id, next_sstable_id, flushVars, results, acked, failed, opens, faults, lastWrite>>

\* the state of the WAL when append fails: in write_all (after a possible
\* rotation nothing is appended) or in flush/sync_all (the record is written
\* but not synced)
WalAfterFailure(w, dir, rec, mode) ==
    IF mode = "sync" THEN WalAppendWrite(w, dir, rec)
    ELSE IF w.bytes_written + RecordLen(rec) > SegmentSize
         THEN WalRotate([w |-> w, dir |-> dir])
         ELSE [w |-> w, dir |-> dir]

\* the error of wal.append is dropped and the write goes on to the MemTable
WriteWalFailIgnored(t, b, mode) ==
    /\ dbOpen /\ pc[t] = "idle"
    /\ nextOp <= MaxWrites /\ calls < MaxCalls /\ faults < MaxFaults
    /\ mode = "sync" => ShouldSync(sync_policy, wal.writes_since_sync + 1)
    /\ LET pts == PointsOf(nextOp, b)
           st == WalAfterFailure(wal, walDir, WalRecord(nextOp, pts), mode)
       IN /\ wal' = st.w
          /\ walDir' = st.dir
          /\ call' = [call EXCEPT ![t] = [NoCall EXCEPT !.type = "write", !.points = pts,
                                                        !.op = nextOp, !.status = "run",
                                                        !.walFailed = TRUE]]
    /\ pc' = [pc EXCEPT ![t] = "w_insert"]
    /\ nextOp' = nextOp + 1
    /\ calls' = calls + 1
    /\ faults' = faults + 1
    /\ UNCHANGED <<libVars, sstFiles, dbOpen, sync_policy, memtable, immutable_memtables, sstables,
                   next_memtable_id, next_sstable_id, flushVars, results, acked, failed, opens,
                   lastWrite>>

\* write, line 96: wal.append returns an error and `?` returns it
WriteWalFail(t, b, mode) ==
    /\ dbOpen /\ pc[t] = "idle"
    /\ nextOp <= MaxWrites /\ calls < MaxCalls /\ faults < MaxFaults
    /\ mode = "sync" => ShouldSync(sync_policy, wal.writes_since_sync + 1)
    /\ LET pts == PointsOf(nextOp, b)
           st == WalAfterFailure(wal, walDir, WalRecord(nextOp, pts), mode)
       IN /\ wal' = st.w
          /\ walDir' = st.dir
          /\ Return(t, [NoCall EXCEPT !.type = "write", !.points = pts, !.op = nextOp,
                                      !.walFailed = TRUE], "ErrWal")
    /\ nextOp' = nextOp + 1
    /\ calls' = calls + 1
    /\ faults' = faults + 1
    /\ UNCHANGED <<libVars, sstFiles, dbOpen, sync_policy, memtable, immutable_memtables, sstables,
                   next_memtable_id, next_sstable_id, flushVars, results, opens, lastWrite>>

\* write, lines 99-102: insert_batch into the live MemTable under its read lock
Insert(t) ==
    /\ pc[t] = "w_insert"
    /\ memtable' = InsertBatch(memtable, call[t].points)
    /\ call' = [call EXCEPT ![t].inserted = TRUE]
    /\ lastWrite' = [k \in Keys |-> IF \E i \in 1..Len(call[t].points) :
                                          call[t].points[i].key = k
                                    THEN call[t].op ELSE lastWrite[k]]
    /\ pc' = [pc EXCEPT ![t] = "w_check"]
    /\ UNCHANGED <<libVars, diskVars, dbOpen, wal, sync_policy, immutable_memtables, sstables,
                   next_memtable_id, next_sstable_id, flushVars, results, nextOp, acked, failed, opens, faults, calls>>

\* write, lines 105-109: should_flush on the live MemTable decides between
\* maybe_flush and Ok
Check(t) ==
    /\ pc[t] = "w_check"
    /\ IF ShouldFlush(memtable, MemtableSizeLimit)
       THEN /\ pc' = [pc EXCEPT ![t] = "mf_swap"]
            /\ UNCHANGED <<call, acked, failed, lastWrite>>
       ELSE Return(t, call[t], "Ok")
    /\ UNCHANGED <<libVars, diskVars, dbVars, flushVars, results, nextOp, opens, faults, calls, lastWrite>>

\* --------------------------------------------------------- Database::flush
Flush(t) ==
    /\ dbOpen /\ pc[t] = "idle"
    /\ calls < MaxCalls
    /\ call' = [call EXCEPT ![t] = [NoCall EXCEPT !.type = "flush", !.status = "run",
                                       !.preNonEmpty = (DOMAIN memtable.data # {}),
                                       !.preSst = Len(sstables)]]
    /\ pc' = [pc EXCEPT ![t] = "mf_swap"]
    /\ calls' = calls + 1
    /\ UNCHANGED <<libVars, diskVars, dbVars, flushVars, results, nextOp, acked, failed, opens, faults, lastWrite>>

\* maybe_flush, lines 277-285: under the write lock, return Ok when the size
\* limit is not reached, else allocate an id and swap in a new MemTable
Swap(t) ==
    /\ pc[t] = "mf_swap"
    /\ IF ~ShouldFlush(memtable, MemtableSizeLimit)
       THEN /\ Return(t, call[t], "Ok")
            /\ UNCHANGED <<memtable, next_memtable_id, old_memtable, lastWrite>>
       ELSE /\ next_memtable_id' = next_memtable_id + 1
            /\ old_memtable' = [old_memtable EXCEPT ![t] = memtable]
            /\ memtable' = NewMemTable(next_memtable_id)
            /\ pc' = [pc EXCEPT ![t] = "mf_push"]
            /\ UNCHANGED <<call, acked, failed, lastWrite>>
    /\ UNCHANGED <<libVars, diskVars, dbOpen, wal, sync_policy, immutable_memtables, sstables,
                   next_sstable_id, imm, sstable_id, results, nextOp, opens, faults, calls, lastWrite>>

\* maybe_flush, lines 288-293: the old MemTable is pushed on the queue
Push(t) ==
    /\ pc[t] = "mf_push"
    /\ immutable_memtables' = Append(immutable_memtables, old_memtable[t])
    /\ old_memtable' = [old_memtable EXCEPT ![t] = NoMemTable]
    /\ pc' = [pc EXCEPT ![t] = "fi_take"]
    /\ UNCHANGED <<libVars, diskVars, dbOpen, wal, sync_policy, memtable, sstables, next_memtable_id,
                   next_sstable_id, call, imm, sstable_id, results, ghostVars>>

\* flush_immutable, lines 302-308: the head of the queue is removed
Take(t) ==
    /\ pc[t] = "fi_take"
    /\ IF immutable_memtables = <<>>
       THEN /\ Return(t, call[t], "Ok")
            /\ UNCHANGED <<immutable_memtables, imm, lastWrite>>
       ELSE /\ imm' = [imm EXCEPT ![t] = Head(immutable_memtables)]
            /\ immutable_memtables' = Tail(immutable_memtables)
            /\ pc' = [pc EXCEPT ![t] = "fi_id"]
            /\ UNCHANGED <<call, acked, failed, lastWrite>>
    /\ UNCHANGED <<libVars, diskVars, dbOpen, wal, sync_policy, memtable, sstables, next_memtable_id,
                   next_sstable_id, old_memtable, sstable_id, results, nextOp, opens,
                   faults, calls, lastWrite>>

\* flush_immutable, line 310: next_sstable_id.fetch_add(1)
AllocId(t) ==
    /\ pc[t] = "fi_id"
    /\ sstable_id' = [sstable_id EXCEPT ![t] = next_sstable_id]
    /\ next_sstable_id' = next_sstable_id + 1
    /\ pc' = [pc EXCEPT ![t] = "fi_build"]
    /\ UNCHANGED <<libVars, diskVars, dbOpen, wal, sync_policy, memtable, immutable_memtables,
                   sstables, next_memtable_id, call, old_memtable, imm, results, ghostVars>>

\* fs: File::create(path) + the writes of SSTableBuilder::finish
WriteFile(files, path, content) ==
    [x \in DOMAIN files \cup {path} |-> IF x = path THEN content ELSE files[x]]

\* flush_immutable, lines 311-319: build_from_memtable writes sst_<id>.flux
Build(t) ==
    /\ pc[t] = "fi_build"
    /\ sstFiles' = WriteFile(sstFiles, sstable_id[t], BuildFromMemtable(imm[t]))
    /\ pc' = [pc EXCEPT ![t] = "fi_open"]
    /\ UNCHANGED <<libVars, walDir, dbVars, call, flushVars, results, ghostVars>>

\* flush_immutable, line 319: build_from_memtable fails (File::create) and `?`
\* returns the error; the MemTable taken off the queue is dropped
BuildFail(t) ==
    /\ pc[t] = "fi_build"
    /\ faults < MaxFaults
    /\ imm' = [imm EXCEPT ![t] = NoMemTable]
    /\ Return(t, [call[t] EXCEPT !.failedImm = imm[t].id], "ErrFlush")
    /\ faults' = faults + 1
    /\ UNCHANGED <<libVars, diskVars, dbVars, old_memtable, sstable_id, results, nextOp, opens, calls, lastWrite>>

\* flush_immutable, lines 324-329: the file is opened and the reader pushed
Register(t) ==
    /\ pc[t] = "fi_open"
    /\ sstables' = Append(sstables, OpenReader(sstable_id[t]))
    /\ imm' = [imm EXCEPT ![t] = NoMemTable]
    /\ pc' = [pc EXCEPT ![t] = "fi_truncate"]
    /\ UNCHANGED <<libVars, diskVars, dbOpen, wal, sync_policy, memtable, immutable_memtables,
                   next_memtable_id, next_sstable_id, call, old_memtable, sstable_id,
                   results, ghostVars>>

\* flush_immutable, line 324: SSTableReader::open fails and `?` returns the error
OpenFail(t) ==
    /\ pc[t] = "fi_open"
    /\ faults < MaxFaults
    /\ imm' = [imm EXCEPT ![t] = NoMemTable]
    /\ Return(t, [call[t] EXCEPT !.failedImm = imm[t].id], "ErrFlush")
    /\ faults' = faults + 1
    /\ UNCHANGED <<libVars, diskVars, dbVars, old_memtable, sstable_id, results, nextOp, opens, calls, lastWrite>>

\* flush_immutable, lines 332-334: wal.truncate_before(sstable_id), then Ok
Truncate(t) ==
    /\ pc[t] = "fi_truncate"
    /\ walDir' = TruncateBefore(walDir, sstable_id[t])
    /\ Return(t, call[t], "Ok")
    /\ UNCHANGED <<libVars, sstFiles, dbVars, flushVars, results, nextOp, opens, faults, calls, lastWrite>>

\* -------------------------------------------------- Database::query_series
\* query_series, lines 133-139: the live MemTable is queried under its read lock
Query(t, s, r) ==
    /\ dbOpen /\ pc[t] = "idle"
    /\ calls < MaxCalls
    /\ results' = [results EXCEPT ![t] = MemQuery(memtable, s, r[1], r[2])]
    /\ call' = [call EXCEPT ![t] = [NoCall EXCEPT !.type = "query", !.status = "run",
                                       !.series = s, !.lo = r[1], !.hi = r[2],
                                       !.snap = {k \in Keys : acked[k] # 0}]]
    /\ pc' = [pc EXCEPT ![t] = "q_imm"]
    /\ calls' = calls + 1
    /\ UNCHANGED <<libVars, diskVars, dbVars, flushVars, nextOp, acked, failed, opens, faults, lastWrite>>

\* query_series, lines 142-147: every queued immutable MemTable, in queue order
QueryImm(t) ==
    /\ pc[t] = "q_imm"
    /\ results' = [results EXCEPT ![t] = @ \o Flatten(
                     [i \in 1..Len(immutable_memtables) |->
                        MemQuery(immutable_memtables[i], call[t].series,
                                 call[t].lo, call[t].hi)])]
    /\ pc' = [pc EXCEPT ![t] = "q_sst"]
    /\ UNCHANGED <<libVars, diskVars, dbVars, call, flushVars, ghostVars>>

\* a reader whose file was rewritten after it was opened
Stale(r) == sstFiles[r.path] # r.snap

SameLayout(a, b) ==
    /\ DOMAIN a.blocks = DOMAIN b.blocks
    /\ \A x \in DOMAIN a.blocks : DOMAIN a.blocks[x] = DOMAIN b.blocks[x]

\* what read_block yields for reader r: its own blocks, (for a rewritten file)
\* the blocks now at the indexed offsets when the layout is the same, or the
\* blocks still held by the block cache
ReaderContent(r, view) ==
    IF Stale(r) /\ view = "file"
    THEN [r.snap EXCEPT !.blocks = sstFiles[r.path].blocks]
    ELSE r.snap

\* query_series, lines 150-165: every SSTable overlapping the range, in list
\* order, then the stable sort by timestamp and the dedup
QuerySst(t, view) ==
    /\ pc[t] = "q_sst"
    /\ LET c == call[t]
           used == {i \in 1..Len(sstables) : OverlapsTime(sstables[i].snap, c.lo, c.hi)}
           stale == {i \in used : Stale(sstables[i])}
       IN /\ view # "cached" => stale # {}
          /\ view = "file" => \A i \in stale :
                                 SameLayout(sstables[i].snap, sstFiles[sstables[i].path])
          /\ view = "error" => \E i \in stale :
                                 ~SameLayout(sstables[i].snap, sstFiles[sstables[i].path])
          /\ IF view = "error"
             THEN Return(t, c, "ErrRead")
             ELSE LET all == results[t] \o Flatten(
                               [i \in 1..Len(sstables) |->
                                  IF i \in used
                                  THEN SstQuery(ReaderContent(sstables[i], view),
                                                c.series, c.lo, c.hi)
                                  ELSE <<>>])
                  IN Return(t, [c EXCEPT !.result = DedupByTimestamp(SortByTimestamp(all))],
                            "Ok")
    /\ results' = [results EXCEPT ![t] = <<>>]
    /\ UNCHANGED <<libVars, diskVars, dbVars, flushVars, nextOp, opens, faults, calls, lastWrite>>

\* ----------------------------------------------------- Database::get_latest
\* get_latest, lines 185-191: the SSTables from the back of the list to its
\* front; the first non-empty full-range query gives its last point, a failed
\* read returns the error
RECURSIVE LatestInSstables(_, _, _)
LatestInSstables(i, s, view) ==
    IF i = 0 THEN [status |-> "Ok", result |-> <<>>]
    ELSE IF Stale(sstables[i]) /\ view = "error"
            /\ ~SameLayout(sstables[i].snap, sstFiles[sstables[i].path])
    THEN [status |-> "ErrRead", result |-> <<>>]
    ELSE LET points == SstQuery(ReaderContent(sstables[i], view), s,
                                FullRange[1], FullRange[2])
         IN IF points # <<>> THEN [status |-> "Ok", result |-> <<points[Len(points)]>>]
            ELSE LatestInSstables(i - 1, s, view)

\* get_latest, lines 177-183: the immutable MemTables from the back of the
\* queue to its front
RECURSIVE LatestInImmutables(_, _, _)
LatestInImmutables(i, s, view) ==
    IF i = 0 THEN LatestInSstables(Len(sstables), s, view)
    ELSE LET points == MemQuery(immutable_memtables[i], s, FullRange[1], FullRange[2])
         IN IF points # <<>> THEN [status |-> "Ok", result |-> <<points[Len(points)]>>]
            ELSE LatestInImmutables(i - 1, s, view)

\* get_latest, lines 170-174: MemTable::get_latest on the live MemTable first
DbGetLatest(s, view) ==
    LET points == MemQuery(memtable, s, FullRange[1], FullRange[2])
    IN IF points # <<>> THEN [status |-> "Ok", result |-> <<points[Len(points)]>>]
       ELSE LatestInImmutables(Len(immutable_memtables), s, view)

\* Database::get_latest(series_key), under the read locks it takes
GetLatest(t, s, view) ==
    /\ dbOpen /\ pc[t] = "idle"
    /\ calls < MaxCalls
    /\ LET stale == {i \in 1..Len(sstables) : Stale(sstables[i])}
       IN /\ view # "cached" => stale # {}
          /\ view = "file" => \A i \in stale :
                                 SameLayout(sstables[i].snap, sstFiles[sstables[i].path])
          /\ view = "error" => \E i \in stale :
                                 ~SameLayout(sstables[i].snap, sstFiles[sstables[i].path])
    /\ LET r == DbGetLatest(s, view)
       IN Return(t, [NoCall EXCEPT !.type = "get_latest", !.series = s,
                                   !.result = r.result], r.status)
    /\ calls' = calls + 1
    /\ UNCHANGED <<libVars, diskVars, dbVars, flushVars, results, nextOp, opens, faults, lastWrite>>

\* ------------------------------------------------- crash, close and reopen
Perms(S) == {f \in [1..Cardinality(S) -> S] : \A i, j \in DOMAIN f : i # j => f[i] # f[j]}

\* the in-memory Database is gone; the directory keeps its files
Shutdown(dir) ==
    /\ walDir' = dir
    /\ dbOpen' = FALSE
    /\ wal' = [segment_id |-> 0, bytes_written |-> 0, writes_since_sync |-> 0]
    /\ memtable' = NewMemTable(0)
    /\ immutable_memtables' = <<>>
    /\ sstables' = <<>>
    /\ next_memtable_id' = 1
    /\ next_sstable_id' = 1
    /\ pc' = [t \in Threads |-> "idle"]
    /\ call' = [t \in Threads |-> NoCall]
    /\ old_memtable' = [t \in Threads |-> NoMemTable]
    /\ imm' = [t \in Threads |-> NoMemTable]
    /\ sstable_id' = [t \in Threads |-> 0]
    /\ results' = [t \in Threads |-> <<>>]
    /\ UNCHANGED <<libVars, sstFiles, sync_policy, ghostVars>>

\* the process dies at any point: of every segment file at least the fsynced
\* records survive; what survives beyond them has not been fsynced
Crash(keepUnsynced) ==
    /\ dbOpen
    /\ opens < MaxOpens
    /\ Shutdown([x \in DOMAIN walDir |->
                   LET n == IF keepUnsynced THEN Len(walDir[x].recs) ELSE walDir[x].synced
                   IN [recs |-> SubSeq(walDir[x].recs, 1, n), synced |-> walDir[x].synced]])

\* the Database is dropped with no call running: BufWriter flushes on drop,
\* nothing calls sync_all
Close ==
    /\ dbOpen
    /\ opens < MaxOpens
    /\ \A t \in Threads : pc[t] = "idle"
    /\ Shutdown(walDir)

\* Database::open, lines 46-84: WalWriter::new on the latest segment,
\* load_sstables (directory order, stably sorted by the readers' id),
\* next_sstable_id from the readers' ids, then the WAL replay
Reopen ==
    \E order \in Perms(DOMAIN sstFiles) :
    /\ ~dbOpen
    /\ LET seg == FindLatestSegment(walDir)
       IN /\ walDir' = OpenSegment(walDir, seg)
          /\ wal' = [segment_id |-> seg, bytes_written |-> 0, writes_since_sync |-> 0]
    /\ LET readers == [i \in 1..Len(order) |-> OpenReader(order[i])]
           ids == {readers[i].id : i \in 1..Len(readers)}
       IN /\ sstables' = readers
          /\ next_sstable_id' = (IF ids = {} THEN 0
                                 ELSE CHOOSE x \in ids : \A y \in ids : x >= y) + 1
    /\ memtable' = Replay(NewMemTable(0), WalRecover(walDir))
    /\ immutable_memtables' = <<>>
    /\ next_memtable_id' = 1
    /\ dbOpen' = TRUE
    /\ opens' = opens + 1
    /\ UNCHANGED <<libVars, sstFiles, sync_policy, thVars, nextOp, acked, failed, faults, calls, lastWrite>>

\* ------------------------------------------------------------ specification
Step(t) ==
    \/ \E b \in Batches : Write(t, b)
    \/ \E b \in Batches, mode \in {"write", "sync"} : WriteWalFail(t, b, mode)
    \/ Insert(t)
    \/ Check(t)
    \/ Flush(t)
    \/ Swap(t)
    \/ Push(t)
    \/ Take(t)
    \/ AllocId(t)
    \/ Build(t)
    \/ BuildFail(t)
    \/ Register(t)
    \/ OpenFail(t)
    \/ Truncate(t)
    \/ \E s \in Series, r \in QueryRanges : Query(t, s, r)
    \/ QueryImm(t)
    \/ \E view \in {"cached", "file", "error"} : QuerySst(t, view)
    \/ \E s \in Series, view \in {"cached", "file", "error"} : GetLatest(t, s, view)

\* one client thread, with I/O failures, crashes, close and reopen
Next ==
    \/ Step(1)
    \/ Close
    \/ \E keepUnsynced \in BOOLEAN : Crash(keepUnsynced)
    \/ Reopen

Spec == Init /\ [][Next]_vars

\* several client threads on one Database instance, no failure and no restart
StepConc(t) ==
    \/ \E b \in Batches : Write(t, b)
    \/ Insert(t)
    \/ Check(t)
    \/ Flush(t)
    \/ Swap(t)
    \/ Push(t)
    \/ Take(t)
    \/ AllocId(t)
    \/ Build(t)
    \/ Register(t)
    \/ Truncate(t)
    \/ \E s \in Series, r \in QueryRanges : Query(t, s, r)
    \/ QueryImm(t)
    \/ QuerySst(t, "cached")

NextConc == \E t \in Threads : StepConc(t)

SpecConc == Init /\ [][NextConc]_vars

\* a writer thread and a reader thread on one Database instance: writes with
\* the flush they trigger and explicit flushes beside query_series calls
StepWriter(t) ==
    \/ \E b \in Batches : Write(t, b)
    \/ Insert(t)
    \/ Check(t)
    \/ Flush(t)
    \/ Swap(t)
    \/ Push(t)
    \/ Take(t)
    \/ AllocId(t)
    \/ Build(t)
    \/ Register(t)
    \/ Truncate(t)

StepReader(t) ==
    \/ \E s \in Series, r \in QueryRanges : Query(t, s, r)
    \/ QueryImm(t)
    \/ QuerySst(t, "cached")

NextReadWrite == StepWriter(1) \/ StepReader(2)

SpecReadWrite == Init /\ [][NextReadWrite]_vars

\* the write and flush paths of one client thread under any sync policy, with
\* I/O failures, crashes, close and reopen
DbPolicies == {[kind |-> "Immediate", n |-> 0], [kind |-> "EveryN", n |-> 2]}

InitSync == LibInit /\ \E policy \in DbPolicies : DatabaseOpen(policy)

StepSync(t) ==
    \/ \E b \in Batches : Write(t, b)
    \/ \E b \in Batches, mode \in {"write", "sync"} : WriteWalFail(t, b, mode)
    \/ Insert(t)
    \/ Check(t)
    \/ Flush(t)
    \/ Swap(t)
    \/ Push(t)
    \/ Take(t)
    \/ AllocId(t)
    \/ Build(t)
    \/ BuildFail(t)
    \/ Register(t)
    \/ OpenFail(t)
    \/ Truncate(t)

NextSync ==
    \/ StepSync(1)
    \/ Close
    \/ \E keepUnsynced \in BOOLEAN : Crash(keepUnsynced)
    \/ Reopen

SpecSync == InitSync /\ [][NextSync]_vars

\* --------------------------------------------- WalWriter / WalReader, bytes
\* the entries the client hands to WalWriter::append
LogEntries == {[entry_type |-> 1, database |-> <<7>>, payload |-> <<5, 6>>],
               [entry_type |-> 5, database |-> <<7, 8>>, payload |-> <<>>]}

\* the sync policies of the writer
LogPolicies == {[kind |-> "Immediate", n |-> 0], [kind |-> "EveryN", n |-> 2],
                [kind |-> "None", n |-> 0]}

\* values a corrupted cell may take
DamageValues == {0, 4, 200}

\* BufWriter::flush: the buffered bytes reach the file of the open segment
LogFlush(st) ==
    LET cur == st.w.segment_id
    IN [w |-> [st.w EXCEPT !.buf = <<>>, !.bufRecs = <<>>, !.writes_since_sync = 0],
        files |-> [st.files EXCEPT ![cur] = @ \o st.w.buf],
        log |-> [st.log EXCEPT ![cur] = @ \o st.w.bufRecs]]

\* BufWriter::write_all on a full buffer: what it holds is written out first
LogSpill(st) == [LogFlush(st) EXCEPT !.w.writes_since_sync = st.w.writes_since_sync]

\* the buffer is dropped instead of being flushed before the next segment
LogRotateNoFlush(st) ==
    LET id == st.w.segment_id + 1
    IN [w |-> [st.w EXCEPT !.segment_id = id, !.bytes_written = 0, !.writes_since_sync = 0,
                           !.buf = <<>>, !.bufRecs = <<>>],
        files |-> [x \in DOMAIN st.files \cup {id} |->
                     IF x \in DOMAIN st.files THEN st.files[x] ELSE <<>>],
        log |-> [x \in DOMAIN st.log \cup {id} |->
                   IF x \in DOMAIN st.log THEN st.log[x] ELSE <<>>]]

\* WalWriter::rotate_segment: flush + sync_all, then the next segment is opened
LogRotate(st) ==
    LET f == LogFlush(st)
        id == st.w.segment_id + 1
    IN [w |-> [f.w EXCEPT !.segment_id = id, !.bytes_written = 0, !.writes_since_sync = 0],
        files |-> [x \in DOMAIN f.files \cup {id} |->
                     IF x \in DOMAIN f.files THEN f.files[x] ELSE <<>>],
        log |-> [x \in DOMAIN f.log \cup {id} |->
                   IF x \in DOMAIN f.log THEN f.log[x] ELSE <<>>]]

\* WalWriter::append: rotation check on the serialized length, write_all into
\* the BufWriter (which may first spill what it holds), flush + sync_all when
\* should_sync says so
LogAppend(e, spill) ==
    /\ recovered.res = "none" /\ damage.seg = -1
    /\ Len(appended) < MaxAppends
    /\ LET serialized == SerializeWithChecksum(e)
           st0 == [w |-> segWriter, files |-> segFiles, log |-> segLog]
           st1 == IF segWriter.bytes_written + Width(serialized) > SegmentBytes
                  THEN LogRotate(st0) ELSE st0
           st2 == IF spill THEN LogSpill(st1) ELSE st1
           st3 == [st2 EXCEPT !.w.buf = @ \o serialized,
                              !.w.bufRecs = Append(@, e),
                              !.w.bytes_written = @ + Width(serialized),
                              !.w.writes_since_sync = @ + 1]
           st4 == IF ShouldSync(st3.w.sync_policy, st3.w.writes_since_sync)
                  THEN LogFlush(st3) ELSE st3
       IN /\ segWriter' = st4.w
          /\ segFiles' = st4.files
          /\ segLog' = st4.log
    /\ appended' = Append(appended, e)
    /\ UNCHANGED <<nonWalVars, recovered, damage>>

\* WalWriter::sync
LogSync ==
    /\ recovered.res = "none"
    /\ segWriter.buf # <<>>
    /\ LET st == LogFlush([w |-> segWriter, files |-> segFiles, log |-> segLog])
       IN /\ segWriter' = st.w
          /\ segFiles' = st.files
          /\ segLog' = st.log
    /\ UNCHANGED <<nonWalVars, recovered, appended, damage>>

\* the writer is dropped (BufWriter flushes on drop) and WalWriter::new runs
\* again: the latest segment is opened for append, bytes_written is 0
LogReopen ==
    /\ recovered.res = "none"
    /\ segWriter.bytes_written # 0
    /\ LET st == LogFlush([w |-> segWriter, files |-> segFiles, log |-> segLog])
       IN /\ segWriter' = [st.w EXCEPT !.segment_id = FindLatestSegment(st.files),
                                        !.bytes_written = 0, !.writes_since_sync = 0]
          /\ segFiles' = st.files
          /\ segLog' = st.log
    /\ UNCHANGED <<nonWalVars, recovered, appended, damage>>

\* the record of segment seg that holds byte number n (from 0) of its file
RECURSIVE RecordAt(_, _)
RecordAt(entries, n) ==
    IF entries = <<>> THEN 1
    ELSE LET size == Width(SerializeWithChecksum(Head(entries)))
         IN IF n < size THEN 1 ELSE 1 + RecordAt(Tail(entries), n - size)

\* one cell of a segment file takes another value
FlipCell(seg, i, v) ==
    /\ recovered.res = "none" /\ damage.seg = -1 /\ segWriter.buf = <<>>
    /\ seg \in DOMAIN segFiles /\ i \in 1..Len(segFiles[seg])
    /\ v # segFiles[seg][i].v
    /\ segFiles' = [segFiles EXCEPT ![seg][i].v = v]
    /\ damage' = [seg |-> seg,
                  rec |-> RecordAt(segLog[seg], Width(SubSeq(segFiles[seg], 1, i - 1)))]
    /\ UNCHANGED <<nonWalVars, segWriter, recovered, appended, segLog>>

\* a segment file loses its tail: only its first n bytes are left
TruncateFile(seg, n) ==
    /\ recovered.res = "none" /\ damage.seg = -1 /\ segWriter.buf = <<>>
    /\ seg \in DOMAIN segFiles /\ n < Width(segFiles[seg])
    /\ segFiles' = [segFiles EXCEPT ![seg] = TakeBytes(@, n)]
    /\ damage' = [seg |-> seg, rec |-> RecordAt(segLog[seg], n)]
    /\ UNCHANGED <<nonWalVars, segWriter, recovered, appended, segLog>>

\* WalReader::recover on the directory
LogRecover ==
    /\ recovered.res = "none"
    /\ LET r == WalReaderRecover(segFiles)
       IN recovered' = [res |-> r.res, entries |-> r.entries,
                        synced |-> (segWriter.buf = <<>>)]
    /\ UNCHANGED <<nonWalVars, segFiles, segWriter, appended, segLog, damage>>

NextWalFile ==
    \/ \E e \in LogEntries, spill \in BOOLEAN : LogAppend(e, spill)
    \/ LogSync
    \/ LogReopen
    \/ \E seg \in 0..MaxAppends, i \in 1..(MaxAppends * 12), v \in DamageValues :
          FlipCell(seg, i, v)
    \/ \E seg \in 0..MaxAppends, n \in 0..SegmentBytes + 24 : TruncateFile(seg, n)
    \/ LogRecover

\* a writer with any sync policy on a fresh directory
InitWalFile ==
    /\ DatabaseInit /\ CompInit /\ EngineInit /\ CodecInit(TRUE) /\ UnitInit
    /\ \E policy \in LogPolicies : WalFileInit(policy)

SpecWalFile == InitWalFile /\ [][NextWalFile]_vars

\* ------------------------------------------- CompactionScheduler, workers
\* a flush has written sst_<nextFileId>.flux and registers it: add_l0_file
AddL0File(range, size) ==
    /\ nextFileId <= MaxFileId
    /\ LET meta == SSTableMeta(nextFileId, range, size)
       IN /\ compFiles' = [p \in DOMAIN compFiles \cup {meta.path} |->
                             IF p = meta.path THEN TableData(meta) ELSE compFiles[p]]
          /\ levels' = [levels EXCEPT ![0] = [@ EXCEPT !.files = Append(@, meta),
                                                       !.size_bytes = @ + meta.file_size]]
    /\ nextFileId' = nextFileId + 1
    /\ UNCHANGED <<nonCompVars, task, cpc>>

\* worker w calls select_compaction; with a task it goes on to execute
Select(w) ==
    /\ cpc[w] = "idle"
    /\ LET t == SelectCompaction(levels)
       IN /\ task' = [task EXCEPT ![w] = t]
          /\ cpc' = [cpc EXCEPT ![w] = IF t = NoTask THEN "idle" ELSE "selected"]
    /\ UNCHANGED <<nonCompVars, levels, compFiles, nextFileId>>

\* execute, lines 166-173 and 219-224: merge_files and write_level_files; an
\* input that cannot be opened ends the call with an error
Merge(w) ==
    /\ cpc[w] = "selected"
    /\ LET m == MergeFiles(TaskInputs(task[w]), compFiles)
       IN IF m.res = "Err"
          THEN /\ cpc' = [cpc EXCEPT ![w] = "idle"]
               /\ task' = [task EXCEPT ![w] = [kind |-> "Err"]]
          ELSE /\ cpc' = [cpc EXCEPT ![w] = "merged"]
               /\ task' = task
    /\ UNCHANGED <<nonCompVars, levels, compFiles, nextFileId>>

\* execute, lines 176-191 and 227-244: the levels are updated under the lock
Update(w) ==
    /\ cpc[w] = "merged"
    /\ LET t == task[w]
       IN levels' = IF t.kind = "L0ToL1"
                    THEN UpdateL0ToL1(levels, t.l1_files, WriteLevelFiles(1, EmptyMap))
                    ELSE UpdateLevelToLevel(levels, t, WriteLevelFiles(t.target_level, EmptyMap))
    /\ cpc' = [cpc EXCEPT ![w] = "updated"]
    /\ UNCHANGED <<nonCompVars, task, compFiles, nextFileId>>

\* execute, lines 194-198 and 247-249: the inputs are deleted, the call returns
Delete(w) ==
    /\ cpc[w] = "updated"
    /\ compFiles' = RemoveFiles(compFiles, TaskInputs(task[w]))
    /\ cpc' = [cpc EXCEPT ![w] = "idle"]
    /\ task' = [task EXCEPT ![w] = IdleTask]
    /\ UNCHANGED <<nonCompVars, levels, nextFileId>>

NextCompaction ==
    \/ \E range \in KeyRanges, size \in FileSizes : AddL0File(range, size)
    \/ \E w \in CompWorkers : Select(w)
    \/ \E w \in CompWorkers : Merge(w)
    \/ \E w \in CompWorkers : Update(w)
    \/ \E w \in CompWorkers : Delete(w)

\* flushes and compaction workers on a scheduler that starts empty
SpecCompaction == Init /\ [][NextCompaction]_vars

\* the ids of 1..MaxFileId placed at level i, in ascending order
RECURSIVE FilesAt(_, _, _, _, _)
FilesAt(place, range, size, i, id) ==
    IF id > MaxFileId THEN <<>>
    ELSE (IF place[id] = i THEN <<SSTableMeta(id, range[id], size[id])>> ELSE <<>>)
         \o FilesAt(place, range, size, i, id + 1)

\* a scheduler whose levels hold any of the files 1..MaxFileId: each level
\* lists its files in the order they were made, size_bytes is their total
SelectInit ==
    /\ \E place \in [1..MaxFileId -> LevelIds \cup {-1}],
          range \in [1..MaxFileId -> KeyRanges],
          size \in [1..MaxFileId -> FileSizes] :
          /\ levels = [i \in LevelIds |->
                         [level |-> i, files |-> FilesAt(place, range, size, i, 1),
                          size_bytes |-> SumSizes(FilesAt(place, range, size, i, 1))]]
          /\ compFiles = [p \in {id \in 1..MaxFileId : place[id] # -1} |->
                            TableData(SSTableMeta(p, range[p], size[p]))]
    /\ task = [w \in CompWorkers |-> IdleTask]
    /\ cpc = [w \in CompWorkers |-> "idle"]
    /\ nextFileId = MaxFileId + 1

InitSelect ==
    DatabaseInit /\ WalLibInit /\ EngineInit /\ CodecInit(TRUE) /\ UnitInit /\ SelectInit

NextSelect == Select(1)

\* select_compaction applied to every such scheduler
SpecSelect == InitSelect /\ [][NextSelect]_vars

\* ------------------------------------------------------------ StorageEngine
\* the call returns: the error kinds seen so far are kept with it
EngineReturn(op, name, res) ==
    /\ engCall' = [op |-> op, name |-> name, res |-> res, seq |-> 1 - engCall.seq,
                   seen |-> engCall.seen \cup ({res} \ {"Ok"})]
    /\ UNCHANGED <<eng_th, eng_opened>>

\* Database::open(name, data_dir, ..): create_dir_all, then the WAL and the
\* SSTables are opened; open says how far it gets
OpenDatabase(name, open) ==
    IF open = "Ok" THEN [res |-> "Ok", dirs |-> dataDirs \cup {name}]
    ELSE IF open = "ErrAfterDir" THEN [res |-> "Io", dirs |-> dataDirs \cup {name}]
    ELSE [res |-> "Io", dirs |-> dataDirs]

\* create_database without the contains_key test
CreateDatabaseUnchecked(name, open) ==
    /\ LET o == OpenDatabase(name, open)
       IN /\ dataDirs' = o.dirs
          /\ databases' = IF o.res = "Ok" THEN databases \cup {name} ELSE databases
          /\ EngineReturn("create_database", name, o.res)
    /\ UNCHANGED nonEngVars

\* StorageEngine::create_database
CreateDatabase(name, open) ==
    /\ IF name \in databases
       THEN /\ EngineReturn("create_database", name, "Config")
            /\ UNCHANGED <<databases, dataDirs>>
       ELSE LET o == OpenDatabase(name, open)
            IN /\ dataDirs' = o.dirs
               /\ databases' = IF o.res = "Ok" THEN databases \cup {name} ELSE databases
               /\ EngineReturn("create_database", name, o.res)
    /\ UNCHANGED nonEngVars

\* StorageEngine::drop_database; removed says whether remove_dir_all succeeds
DropDatabase(name, removed) ==
    /\ IF name \notin databases
       THEN /\ EngineReturn("drop_database", name, "DatabaseNotFound")
            /\ UNCHANGED <<databases, dataDirs>>
       ELSE /\ databases' = databases \ {name}
            /\ IF name \notin dataDirs
               THEN /\ EngineReturn("drop_database", name, "Ok")
                    /\ UNCHANGED dataDirs
               ELSE IF removed
               THEN /\ EngineReturn("drop_database", name, "Ok")
                    /\ dataDirs' = dataDirs \ {name}
               ELSE /\ EngineReturn("drop_database", name, "Io")
                    /\ UNCHANGED dataDirs
    /\ UNCHANGED nonEngVars

\* the engine value is dropped and StorageEngine::new runs on the same
\* data_dir: load_databases registers every directory that is not hidden and
\* that Database::open can open
EngineNew(failing) ==
    /\ databases' = (dataDirs \ HiddenNames) \ failing
    /\ EngineReturn("new", "", "Ok")
    /\ UNCHANGED <<nonEngVars, dataDirs>>

NextEngine ==
    \/ \E name \in DbNames, open \in {"Ok", "ErrAfterDir", "ErrBeforeDir"} :
          CreateDatabase(name, open)
    \/ \E name \in DbNames, removed \in BOOLEAN : DropDatabase(name, removed)
    \/ \E failing \in SUBSET DbNames : EngineNew(failing)

SpecEngine == Init /\ [][NextEngine]_vars

\* ------------------------------------------- StorageEngine, client threads
\* get_or_create_database(name), lines 59-64, by itself or as the first
\* statement of StorageEngine::write: under the read lock, a registered
\* database is returned; else the lock is released and create_database follows
EngLookup(t, op, name) ==
    /\ eng_th[t].pc = "idle"
    /\ eng_th' = [eng_th EXCEPT ![t] =
                    IF name \in databases
                    THEN [pc |-> "idle", op |-> op, name |-> name, res |-> "Ok"]
                    ELSE [pc |-> "create", op |-> op, name |-> name, res |-> "run"]]
    /\ UNCHANGED <<nonEngVars, databases, dataDirs, engCall, eng_opened>>

\* get_or_create_database, line 68: create_database(name) under the write
\* lock; its result is the result of the call
EngCreate(t) ==
    /\ eng_th[t].pc = "create"
    /\ LET name == eng_th[t].name
       IN IF name \in databases
          THEN /\ eng_th' = [eng_th EXCEPT ![t].pc = "idle", ![t].res = "Config"]
               /\ UNCHANGED <<databases, dataDirs, eng_opened>>
          ELSE /\ dataDirs' = dataDirs \cup {name}
               /\ databases' = databases \cup {name}
               /\ eng_opened' = [eng_opened EXCEPT ![name] = @ + 1]
               /\ eng_th' = [eng_th EXCEPT ![t].pc = "idle", ![t].res = "Ok"]
    /\ UNCHANGED <<nonEngVars, engCall>>

NextEngineConc ==
    \E t \in Threads :
       \/ \E op \in {"write", "get_or_create_database"}, name \in DbNames :
             EngLookup(t, op, name)
       \/ EngCreate(t)

\* client threads on one StorageEngine, no I/O failure
SpecEngineConc == Init /\ [][NextEngineConc]_vars

\* ------------------------------------------- GorillaEncoder / GorillaDecoder
\* timestamps: with a first timestamp of 0 the second one is the
\* delta-of-delta, so these sit on both sides of every prefix-code boundary
TsValues ==
    {I64OfInt(n) : n \in {0, -63, -64, 64, 65, -255, -256, 256, 257,
                          -2047, -2048, 2048, 2049}} \cup {I64Min, I64Max}

\* f64 bit patterns: 0.0, 1.0, 2.0 and the smallest subnormal
ValValues ==
    {Zero64,
     SubSeq([i \in 1..64 |-> IF i \in 3..12 THEN 1 ELSE 0], 1, 64),
     SubSeq([i \in 1..64 |-> IF i = 2 THEN 1 ELSE 0], 1, 64),
     SubSeq([i \in 1..64 |-> IF i = 64 THEN 1 ELSE 0], 1, 64)}

\* GorillaEncoder::encode(timestamp, value)
EncodePoint(timestamp, value) ==
    /\ encoder.count < MaxPoints /\ ~encoder.panicked /\ block = NoBlock
    /\ encoder' = Encode(encoder, timestamp, value, overflow_checks)
    /\ encoded' = Append(encoded, <<timestamp, value>>)
    /\ UNCHANGED <<nonCodecVars, block, decoded, overflow_checks>>

\* GorillaEncoder::finish
FinishBlock ==
    /\ ~encoder.panicked /\ block = NoBlock
    /\ block' = Finish(encoder)
    /\ UNCHANGED <<nonCodecVars, encoder, encoded, decoded, overflow_checks>>

\* GorillaDecoder::new(&block.data, block.count).decode_all()
DecodeBlock ==
    /\ block # NoBlock /\ decoded.res = "none"
    /\ decoded' = DecodeAll(block.data, block.count, overflow_checks)
    /\ UNCHANGED <<nonCodecVars, encoder, encoded, block, overflow_checks>>

NextCodec ==
    \/ \E timestamp \in TsValues, value \in ValValues : EncodePoint(timestamp, value)
    \/ FinishBlock
    \/ DecodeBlock

\* an encoder in a build with or without overflow checks
InitCodec ==
    /\ DatabaseInit /\ WalLibInit /\ CompInit /\ EngineInit /\ UnitInit
    /\ \E checks \in BOOLEAN : CodecInit(checks)

SpecCodec == InitCodec /\ [][NextCodec]_vars

\* ------------------------------------------------------------ BloomFilter
\* BloomFilter::add(key)
BloomAddKey(key) ==
    /\ bloom.res = "Ok" /\ restored = NoFilter /\ key \notin added
    /\ bloom' = BloomAdd(bloom.filter, hash_key[key])
    /\ added' = IF bloom'.res = "Ok" THEN added \cup {key} ELSE added
    /\ UNCHANGED <<nonBloomVars, hash_key, restored>>

\* BloomFilter::from_bytes(filter.as_bytes().to_vec(), filter.num_hashes())
BloomRestore ==
    /\ bloom.res = "Ok" /\ restored = NoFilter
    /\ restored' = BloomFromBytes(bloom.filter.bits, bloom.filter.num_hashes)
    /\ UNCHANGED <<nonBloomVars, hash_key, bloom, added>>

NextBloom ==
    \/ \E key \in BloomKeys : BloomAddKey(key)
    \/ BloomRestore

\* BloomFilter::new(num_keys, bits_per_key) for any sizes, with any hasher
InitBloom ==
    /\ NonUnitInit /\ MemInit /\ TableInit(<<>>, TRUE, TRUE) /\ RestInit
    /\ \E num_keys \in 0..MaxNumKeys, bits_per_key \in 1..MaxBitsPerKey :
          \E h \in [BloomKeys -> HashValues \X HashValues] :
             BloomInit(num_keys, bits_per_key, h)

SpecBloom == InitBloom /\ [][NextBloom]_vars

\* ------------------------------------------------------ MemTable, SkipList
\* the points a caller can hand to a MemTable
MtPoints == {[key |-> k, fields |-> v] : k \in MtKeys, v \in MtVersions}
\* the batches: two points of one series
MtBatches == {b \in MtPoints \X MtPoints : b[1].key[1] = b[2].key[1]}

\* the sorted map a sequence of inserts stands for: the last value per key
MapInsert(map, point) ==
    [k \in DOMAIN map \cup {point.key} |->
       IF k = point.key THEN point.fields ELSE map[k]]

RECURSIVE MapInsertAll(_, _)
MapInsertAll(map, points) ==
    IF points = <<>> THEN map ELSE MapInsertAll(MapInsert(map, Head(points)), Tail(points))

\* MemTable::insert(point), the node height drawn by random_level
MtInsert(point, level) ==
    /\ mt_inserts < MaxInserts
    /\ mt_prev' = mt
    /\ mt' = MemTableInsert(mt, point, level)
    /\ mt_map' = MapInsert(mt_map, point)
    /\ mt_call' = [op |-> "insert", points |-> <<point>>, before |-> mt_map]
    /\ mt_inserts' = mt_inserts + 1
    /\ UNCHANGED nonMemVars

\* MemTable::insert_batch(points), one node height drawn per point
MtInsertBatch(points, heights) ==
    /\ mt_inserts + Len(points) <= MaxInserts
    /\ mt_prev' = mt
    /\ mt' = MemTableInsertBatch(mt, points, heights)
    /\ mt_map' = MapInsertAll(mt_map, points)
    /\ mt_call' = [op |-> "insert_batch", points |-> points, before |-> mt_map]
    /\ mt_inserts' = mt_inserts + Len(points)
    /\ UNCHANGED nonMemVars

NextMemTable ==
    \/ \E point \in MtPoints, level \in Heights : MtInsert(point, level)
    \/ \E points \in MtBatches :
          \E heights \in [1..Len(points) -> Heights] : MtInsertBatch(points, heights)

InitMemTable ==
    NonUnitInit /\ BloomUnitInit /\ MemInit /\ TableInit(<<>>, TRUE, TRUE) /\ RestInit

SpecMemTable == InitMemTable /\ [][NextMemTable]_vars

\* ------------------------------------------- SSTableBuilder, SSTableReader
\* series keys: "m", "m,k=v", "m" with the tag value "v,a", and the
\* measurement "m,k=v" without tags
TbKeys == {SeriesKeyNew(<<109>>),
           WithTag(SeriesKeyNew(<<109>>), <<107>>, <<118>>),
           WithTag(SeriesKeyNew(<<109>>), <<107>>, <<118, 44, 97>>),
           SeriesKeyNew(<<109, 44, 107, 61, 118>>)}
\* keys as the line protocol of the server can give them
PlainKeys == {key \in TbKeys : ParseSeriesKey(Canonical(key)) = key}
TbTimestamps == {I64Min, Zero64, I64OfInt(1)}
CloseTimestamps == {Zero64, I64OfInt(1)}
\* the field names "f" and "g"
FieldSets == {{<<102>>}, {<<102>>, <<103>>}}
TbRanges == {<<I64Min, I64Max>>, <<Zero64, Zero64>>}

\* the f64 values 0.0, 1.0, 2.0 and the smallest subnormal, one per point and
\* field
TbValue(key, timestamp, name) ==
    LET n == (Len(key.measurement) + 2 * Len(key.tags) + timestamp[64]
              + 2 * timestamp[1] + name[1]) % 4
    IN SubSeq([i \in 1..64 |->
                 IF \/ n = 1 /\ i \in 3..12
                    \/ n = 2 /\ i = 2
                    \/ n = 3 /\ i = 64 THEN 1 ELSE 0], 1, 64)

\* ImmutableMemTable::iter: the entries in MemTableKey order
RECURSIVE TbSort(_, _)
TbSort(S, names) ==
    IF S = {} THEN <<>>
    ELSE LET m == CHOOSE x \in S : \A y \in S :
                     \/ SeriesKeyLt(x[1], y[1])
                     \/ (x[1] = y[1] /\ I64Leq(x[2], y[2]))
         IN <<[key |-> m[1], timestamp |-> m[2],
               fields |-> [n \in names |-> TbValue(m[1], m[2], n)]]>>
            \o TbSort(S \ {m}, names)

\* the MemTables of at most MaxEntries points over keys and timestamps
MemTables(keys, timestamps) ==
    {TbSort(S, names) : S \in {S \in SUBSET (keys \X timestamps) :
                                 Cardinality(S) <= MaxEntries},
                        names \in FieldSets}

\* SSTableBuilder::build_from_memtable(path, 1, 0, memtable, config)
TbBuild ==
    /\ tb_built.res = "none"
    /\ LET r == BuildTable(tb_mem, 1, 0, tb_cfg.compression, tb_cfg.overflow_checks)
       IN /\ tb_built' = IF r.res = "Ok" THEN [res |-> "Ok", meta |-> r.meta]
                         ELSE [res |-> r.res, meta |-> <<>>]
          /\ tb_file' = IF r.res = "Ok" THEN r.file ELSE tb_file
    /\ UNCHANGED <<nonTableVars, tb_mem, tb_cfg, tb_reader, tb_query, tb_damage>>

\* SSTableReader::open(path)
TbOpen ==
    /\ tb_built.res = "Ok" /\ tb_reader = NoReader
    /\ tb_reader' = OpenTable(tb_file)
    /\ UNCHANGED <<nonTableVars, tb_mem, tb_cfg, tb_built, tb_file, tb_query, tb_damage>>

\* this query follows the damage, or no query was made yet
MayQuery == tb_query.res = "none" \/ (tb_damage # NoDamage /\ ~tb_query.damaged)

\* SSTableReader::query(series_key, time_range)
TbQuery(series_key, range) ==
    /\ tb_reader # NoReader /\ MayQuery
    /\ LET r == TableQuery(tb_reader, tb_file, series_key, range[1], range[2],
                           tb_cfg.overflow_checks)
       IN /\ tb_query' = [op |-> "query", key |-> series_key, field_name |-> <<>>,
                          start |-> range[1], end |-> range[2],
                          res |-> r.res, points |-> r.points,
                          damaged |-> tb_damage # NoDamage, cached |-> DOMAIN tb_reader.cache]
          /\ tb_reader' = [tb_reader EXCEPT !.cache = r.cache]
    /\ UNCHANGED <<nonTableVars, tb_mem, tb_cfg, tb_built, tb_file, tb_damage>>

\* SSTableReader::query_field(series_key, field_name, time_range)
TbQueryField(series_key, field_name, range) ==
    /\ tb_reader # NoReader /\ MayQuery
    /\ LET r == TableQueryField(tb_reader, tb_file, series_key, field_name,
                                range[1], range[2], tb_cfg.overflow_checks)
       IN /\ tb_query' = [op |-> "query_field", key |-> series_key,
                          field_name |-> field_name,
                          start |-> range[1], end |-> range[2],
                          res |-> r.res, points |-> r.points,
                          damaged |-> tb_damage # NoDamage, cached |-> DOMAIN tb_reader.cache]
          /\ tb_reader' = [tb_reader EXCEPT !.cache = r.cache]
    /\ UNCHANGED <<nonTableVars, tb_mem, tb_cfg, tb_built, tb_file, tb_damage>>

\* one byte of the first data block of the file takes another value
TbCorrupt(pos, v) ==
    /\ tb_built.res = "Ok" /\ tb_damage = NoDamage
    /\ tb_file.index # <<>> /\ pos \in 1..tb_file.index[1].size
    /\ v # tb_file.data[pos]
    /\ tb_file' = [tb_file EXCEPT !.data[pos] = v]
    /\ tb_damage' = [pos |-> pos, v |-> v]
    /\ UNCHANGED <<nonTableVars, tb_mem, tb_cfg, tb_built, tb_reader, tb_query>>

NextTable ==
    \/ TbBuild
    \/ TbOpen
    \/ \E series_key \in TbKeys, range \in TbRanges : TbQuery(series_key, range)

\* an immutable MemTable of Float fields, any compression setting, a build
\* with or without overflow checks
InitTable ==
    /\ NonUnitInit /\ BloomUnitInit /\ MemInit /\ RestInit
    /\ \E entries \in MemTables(TbKeys, TbTimestamps), use_lz4 \in BOOLEAN, checks \in BOOLEAN :
          TableInit(entries, use_lz4, checks)

SpecTable == InitTable /\ [][NextTable]_vars

NextDamage ==
    \/ TbBuild
    \/ TbOpen
    \/ \E series_key \in PlainKeys : TbQuery(series_key, <<I64Min, I64Max>>)
    \/ \E series_key \in PlainKeys, field_name \in UNION FieldSets :
          TbQueryField(series_key, field_name, <<I64Min, I64Max>>)
    \/ \E pos \in 1..Len(tb_file.data), v \in {0, 200} : TbCorrupt(pos, v)

\* MemTables of plain keys with timestamps 0 and 1
InitDamage ==
    /\ NonUnitInit /\ BloomUnitInit /\ MemInit /\ RestInit
    /\ \E entries \in MemTables(PlainKeys, CloseTimestamps), use_lz4 \in BOOLEAN :
          TableInit(entries, use_lz4, TRUE)

SpecDamage == InitDamage /\ [][NextDamage]_vars

\* ------------------------------------------------- SSTableReader, block cache
\* SSTableReader::read_block on block i of the file: a cached block is
\* returned, any other block is read from the file and put in the cache
BcReadBlock(i) ==
    /\ i \in 1..Len(bc_file)
    /\ bc_reads < MaxReads
    /\ bc' = IF BlockOffset(bc_file, i) \in DOMAIN bc.blocks THEN bc
             ELSE BlockCacheInsert(bc, BlockOffset(bc_file, i), bc_file[i])
    /\ bc_reads' = bc_reads + 1
    /\ UNCHANGED <<nonCacheVars, bc_file>>

NextCache == \E i \in 1..MaxBlocks : BcReadBlock(i)

\* a file of at most MaxBlocks data blocks of any lengths, an empty cache
InitCache ==
    /\ NonUnitInit /\ BloomUnitInit /\ MemInit /\ TableInit(<<>>, TRUE, TRUE) /\ LockInit
    /\ \E n \in 1..MaxBlocks : \E lens \in [1..n -> 1..MaxBlockLen] : CacheInit(lens)

SpecCache == InitCache /\ [][NextCache]_vars

\* --------------------------------------------- threads taking the locks
\* the step thread t has to make next
Instr(t) == lk_prog[t][lk_pc[t]]

Running(t) == lk_prog[t] # <<>>

\* thread t, running no call, starts one that makes the acquisitions of path
LkCall(t, path) ==
    /\ lk_calls < MaxCalls
    /\ lk_prog' = [lk_prog EXCEPT ![t] = path]
    /\ lk_pc' = [lk_pc EXCEPT ![t] = 1]
    /\ lk_calls' = lk_calls + 1
    /\ UNCHANGED <<lk_held, nonLockVars>>

LkWrite(t) ==
    /\ ~Running(t)
    /\ \E path \in WriteLocks : LkCall(t, path)
LkFlush(t) ==
    /\ ~Running(t)
    /\ \E path \in FlushLocks : LkCall(t, path)
LkQuerySeries(t) ==
    /\ ~Running(t)
    /\ \E path \in QuerySeriesLocks : LkCall(t, path)
LkGetLatest(t) ==
    /\ ~Running(t)
    /\ \E path \in GetLatestLocks : LkCall(t, path)
LkStats(t) ==
    /\ ~Running(t)
    /\ \E path \in StatsLocks : LkCall(t, path)

\* a thread stands at the acquisition of lock in mode "W"
WriterWaits(u, lock) ==
    Running(u) /\ lk_pc[u] <= Len(lk_prog[u]) /\ Instr(u) = Acq(lock, "W")

\* the lock can be given in this mode: read()/write()/lock() of parking_lot
\* do not look at who asks, so a thread that holds the lock counts too
Free(lock, mode) ==
    \A u \in Threads :
       /\ <<lock, "W">> \notin lk_held[u]
       /\ mode = "W" => <<lock, "R">> \notin lk_held[u]

\* read() may also make the caller wait while a writer is queued
MustGet(t, lock, mode) ==
    /\ Free(lock, mode)
    /\ mode = "R" => \A u \in Threads \ {t} : ~WriterWaits(u, lock)

\* read(), write(), lock(): the guard is obtained
LkAcquire(t) ==
    /\ Running(t) /\ lk_pc[t] <= Len(lk_prog[t])
    /\ Instr(t)[1] = "acquire"
    /\ Free(Instr(t)[2], Instr(t)[3])
    /\ lk_held' = [lk_held EXCEPT ![t] = @ \cup {<<Instr(t)[2], Instr(t)[3]>>}]
    /\ lk_pc' = [lk_pc EXCEPT ![t] = @ + 1]
    /\ UNCHANGED <<lk_prog, lk_calls, nonLockVars>>

\* a guard is dropped
LkRelease(t) ==
    /\ Running(t) /\ lk_pc[t] <= Len(lk_prog[t])
    /\ Instr(t)[1] = "release"
    /\ lk_held' = [lk_held EXCEPT ![t] = @ \ {<<Instr(t)[2], Instr(t)[3]>>}]
    /\ lk_pc' = [lk_pc EXCEPT ![t] = @ + 1]
    /\ UNCHANGED <<lk_prog, lk_calls, nonLockVars>>

\* the call returns
LkReturn(t) ==
    /\ Running(t) /\ lk_pc[t] > Len(lk_prog[t])
    /\ lk_prog' = [lk_prog EXCEPT ![t] = <<>>]
    /\ lk_pc' = [lk_pc EXCEPT ![t] = 0]
    /\ UNCHANGED <<lk_held, lk_calls, nonLockVars>>

StepLocks(t) ==
    \/ LkWrite(t)
    \/ LkFlush(t)
    \/ LkQuerySeries(t)
    \/ LkGetLatest(t)
    \/ LkStats(t)
    \/ LkAcquire(t)
    \/ LkRelease(t)
    \/ LkReturn(t)

NextLocks == \E t \in Threads : StepLocks(t)

\* threads running write, flush, query_series, get_latest and stats on one
\* Database, seen as the lock acquisitions they make
SpecLocks == Init /\ [][NextLocks]_vars

\* ------------------------------------------------------------------ claims
\* the version of key k written by call op, or one written by a later call,
\* is stored in the SSTable file content f
InSst(f, k, op) ==
    \E o \in op..MaxWrites :
        \A n \in DOMAIN FieldsOf(o) :
            /\ <<k[1], n>> \in DOMAIN f.blocks
            /\ k[2] \in DOMAIN f.blocks[<<k[1], n>>]
            /\ f.blocks[<<k[1], n>>][k[2]] = FieldsOf(o)[n].v

\* the version of key k written by call op, or one written by a later call,
\* is in the synced part of a WAL segment file
InWal(dir, k, op) ==
    \E seg \in DOMAIN dir : \E i \in 1..dir[seg].synced :
        /\ dir[seg].recs[i].op >= op
        /\ \E j \in 1..Len(dir[seg].recs[i].points) : dir[seg].recs[i].points[j].key = k

\* C1: under SyncPolicy::Immediate every point whose write returned Ok is
\* recoverable after a crash: it (or a version of its key written later) is
\* in a surviving WAL segment or in an SSTable file
C1_AckedPointsRecoverable ==
    \A k \in Keys :
        acked[k] # 0 =>
            \/ InWal(walDir, k, acked[k])
            \/ \E id \in DOMAIN sstFiles : InSst(sstFiles[id], k, acked[k])

\* the points of result r lie at timestamp ts
HasTimestamp(r, ts) == \E i \in 1..Len(r) : r[i].timestamp = ts

InQueryRange(c, k) == k[1] = c.series /\ c.lo <= k[2] /\ k[2] <= c.hi

\* C2: a query_series issued after a write returned Ok returns the points of
\* that write that lie in its range, under every interleaving with writes and
\* flushes of other threads
C2_ReadYourWrites ==
    \A t \in Threads :
        (call[t].type = "query" /\ call[t].status = "Ok") =>
            \A k \in call[t].snap :
                InQueryRange(call[t], k) => HasTimestamp(call[t].result, k[2])

\* C3: with flushes anywhere between the writes, query_series returns for a
\* written timestamp exactly one point, carrying the field map of the most
\* recently written version
C3_LastWriteWins ==
    \A t \in Threads :
        (call[t].type = "query" /\ call[t].status = "Ok" /\ opens = 1 /\ faults = 0) =>
            \A k \in Keys :
                (lastWrite[k] # 0 /\ InQueryRange(call[t], k)) =>
                    /\ Cardinality({i \in 1..Len(call[t].result) :
                                      call[t].result[i].timestamp = k[2]}) = 1
                    /\ \A i \in 1..Len(call[t].result) :
                          call[t].result[i].timestamp = k[2] =>
                              call[t].result[i].fields = FieldsOf(lastWrite[k])

\* every record of segment seg of directory dir is stored in an SSTable of files
SegmentInSstables(dir, seg, files) ==
    \A i \in 1..Len(dir[seg].recs) :
        \A j \in 1..Len(dir[seg].recs[i].points) :
            \E id \in DOMAIN files :
                InSst(files[id], dir[seg].recs[i].points[j].key, dir[seg].recs[i].op)

\* C4: a WAL segment is deleted only when all its records are in an SSTable;
\* the segment the writer appends to is never deleted
C4_TruncateOnlyFlushedSegments ==
    [][\A seg \in DOMAIN walDir \ DOMAIN walDir' :
          /\ seg # wal.segment_id
          /\ SegmentInSstables(walDir, seg, sstFiles')]_vars

\* C5: a flush allocates an SSTable id for which no sst_<id>.flux file exists
C5_FreshSstableId ==
    \A t \in Threads : pc[t] = "fi_build" => sstable_id[t] \notin DOMAIN sstFiles

\* C6: when building or opening the SSTable fails, the MemTable being flushed
\* is still on the immutable queue
C6_FailedFlushStaysQueued ==
    \A t \in Threads :
        call[t].status = "ErrFlush" =>
            \E i \in 1..Len(immutable_memtables) :
                immutable_memtables[i].id = call[t].failedImm

\* C7: when the WAL append fails, write returns the error and no point of the
\* batch is in the live MemTable
C7_WalFailureLeavesMemtable ==
    \A t \in Threads :
        call[t].walFailed =>
            /\ call[t].status = "ErrWal"
            /\ ~call[t].inserted
            /\ \A k \in DOMAIN memtable.data : memtable.data[k] # FieldsOf(call[t].op)

C7_Witness ==
    \E t \in Threads :
        /\ call[t].walFailed /\ call[t].status = "ErrWal"
        /\ DOMAIN memtable.data # {}
        /\ \E i \in 1..Len(call[t].points) : call[t].points[i].key \in DOMAIN memtable.data

\* C8: after flush returned Ok on a non-empty live MemTable there is one more
\* SSTable and the live MemTable is empty
C8_FlushWritesSstable ==
    \A t \in Threads :
        (call[t].type = "flush" /\ call[t].status = "Ok" /\ call[t].preNonEmpty) =>
            /\ Len(sstables) = call[t].preSst + 1
            /\ DOMAIN memtable.data = {}

\* query_series run with no other thread interleaved
QuerySeriesNow(s, lo, hi) ==
    DedupByTimestamp(SortByTimestamp(
        MemQuery(memtable, s, lo, hi)
        \o Flatten([i \in 1..Len(immutable_memtables) |->
                      MemQuery(immutable_memtables[i], s, lo, hi)])
        \o Flatten([i \in 1..Len(sstables) |->
                      IF OverlapsTime(sstables[i].snap, lo, hi)
                      THEN SstQuery(sstables[i].snap, s, lo, hi) ELSE <<>>])))

\* C9: once concurrent writes to a key have returned, reads observe the whole
\* field map of the write that returned last
C9_LaterReturningWriteObserved ==
    (dbOpen /\ \A t \in Threads : pc[t] = "idle") =>
        \A k \in Keys :
            acked[k] # 0 =>
                LET r == QuerySeriesNow(k[1], k[2], k[2])
                IN Len(r) = 1 /\ r[1].fields = FieldsOf(acked[k])

\* C10: no key is both in the live MemTable and in a queued immutable MemTable
C10_NoKeyInLiveAndImmutable ==
    \A i \in 1..Len(immutable_memtables) :
        DOMAIN memtable.data \cap DOMAIN immutable_memtables[i].data = {}

\* the entries recover has to return for a directory: per segment in ascending
\* id order, the records in front of the first damaged one
ExpectedEntries ==
    LET ids == AscSeq(DOMAIN segLog)
    IN Flatten([i \in 1..Len(ids) |->
                  IF ids[i] = damage.seg
                  THEN SubSeq(segLog[ids[i]], 1, damage.rec - 1)
                  ELSE segLog[ids[i]]])

\* C11: whatever record of a segment is corrupted or cut, recover succeeds
\* and returns, segment by segment, exactly the records in front of it
C11_RecoverStopsAtCorruption ==
    recovered.res # "none" =>
        /\ recovered.res = "Ok"
        /\ recovered.entries = ExpectedEntries

\* C12: entries appended across rotations and then synced are recovered in
\* append order with the same entry type, database name and payload
C12_RecoverReturnsAppended ==
    (recovered.res # "none" /\ recovered.synced /\ damage.seg = -1) =>
        /\ recovered.res = "Ok"
        /\ recovered.entries = appended

C12_Witness ==
    /\ recovered.res = "Ok" /\ recovered.synced /\ damage.seg = -1
    /\ Len(appended) = MaxAppends
    /\ segWriter.segment_id >= 1
    /\ \E i, j \in 1..Len(appended) : appended[i] # appended[j]

\* records of the WAL directory that were appended and not fsynced since
RECURSIVE Unsynced(_, _)
Unsynced(dir, segs) ==
    IF segs = {} THEN 0
    ELSE LET x == CHOOSE y \in segs : TRUE
         IN Len(dir[x].recs) - dir[x].synced + Unsynced(dir, segs \ {x})

\* C13: when write has returned Ok its points were inserted into the live
\* MemTable and the sync policy is satisfied: no appended record is unsynced
\* under Immediate, fewer than n are under EveryN(n)
C13_SyncPolicySatisfied ==
    \A t \in Threads :
        (call[t].type = "write" /\ call[t].status = "Ok") =>
            /\ call[t].inserted
            /\ sync_policy.kind = "Immediate" => Unsynced(walDir, DOMAIN walDir) = 0
            /\ sync_policy.kind = "EveryN" => Unsynced(walDir, DOMAIN walDir) < sync_policy.n

\* the key ranges [min_key, max_key] of two tables intersect
Intersects(f, g) == f.min_key <= g.max_key /\ g.min_key <= f.max_key

\* the content of the table at a path, nothing when the file is gone
DataAt(disk, path) == IF path \in DOMAIN disk THEN disk[path] ELSE EmptyMap

\* last-write-wins union of tables listed oldest first
RECURSIVE LastWriteWins(_, _)
LastWriteWins(files, disk) ==
    IF files = <<>> THEN EmptyMap
    ELSE LET older == LastWriteWins(SubSeq(files, 1, Len(files) - 1), disk)
             newest == DataAt(disk, files[Len(files)].path)
         IN [k \in DOMAIN older \cup DOMAIN newest |->
               IF k \in DOMAIN newest THEN newest[k] ELSE older[k]]

InputIds(t) == {f.id : f \in SeqRange(TaskInputs(t))}

\* the keys readable through the levels: tables that are listed and on disk
Readable(lv, disk) ==
    UNION {DOMAIN DataAt(disk, f.path) : f \in UNION {SeqRange(lv[i].files) : i \in LevelIds}}

\* C14: when a worker executes an L0->L1 task, the update of the levels leaves
\* L0 empty and adds L1 tables whose contents are the last-write-wins union of
\* the task's inputs, and after the inputs are deleted every key they held is
\* still readable from a listed table
C14_L0ToL1KeepsContents ==
    [][\A w \in CompWorkers :
         /\ (cpc[w] = "merged" /\ cpc'[w] = "updated" /\ task[w].kind = "L0ToL1")
            => /\ levels'[0].files = <<>>
               /\ LastWriteWins(SelectSeq(levels'[1].files,
                                          LAMBDA f : f \notin SeqRange(levels[1].files)),
                                compFiles')
                  = LastWriteWins(task[w].l1_files \o task[w].l0_files, compFiles)
         /\ (cpc[w] = "updated" /\ cpc'[w] = "idle" /\ task[w].kind = "L0ToL1")
            => DOMAIN LastWriteWins(TaskInputs(task[w]), compFiles)
                  \subseteq Readable(levels', compFiles')]_vars

\* C15: the update of the levels at the end of a task removes only the task's
\* input tables: a table listed in a level that is not an input, such as one
\* registered in L0 after the task was selected, is still listed there
C15_OnlyInputsRemoved ==
    [][\A w \in CompWorkers :
         (cpc[w] = "merged" /\ cpc'[w] = "updated")
         => \A i \in LevelIds : \A f \in SeqRange(levels[i].files) :
               f.id \notin InputIds(task[w]) => f \in SeqRange(levels'[i].files)]_vars

\* C16: no table is an input of two compaction tasks that are in flight
C16_InputsDisjoint ==
    \A w1 \in CompWorkers, w2 \in CompWorkers :
       (w1 # w2 /\ cpc[w1] # "idle" /\ cpc[w2] # "idle")
       => InputIds(task[w1]) \cap InputIds(task[w2]) = {}

Qualifying(lv) ==
    {i \in LevelIds : /\ i >= 1
                      /\ i + 1 < CompactionConfig.max_levels
                      /\ lv[i].size_bytes > CompactionConfig.base_level_size
                            * Pow(CompactionConfig.level_size_multiplier, i - 1)}

C19_RejectedCallsChangeNothing ==
    [][(engCall' # engCall)
       => /\ (engCall'.op = "create_database" /\ engCall'.name \in databases)
             => (engCall'.res = "Config" /\ databases' = databases /\ dataDirs' = dataDirs)
          /\ (engCall'.op = "drop_database" /\ engCall'.name \notin databases)
             => (engCall'.res = "DatabaseNotFound"
                 /\ databases' = databases /\ dataDirs' = dataDirs)]_vars

\* both errors were returned, the last one by a drop_database on a name whose
\* directory exists
C19_Witness ==
    /\ engCall.seen = {"Config", "DatabaseNotFound"}
    /\ engCall.op = "drop_database"
    /\ engCall.res = "DatabaseNotFound"
    /\ engCall.name \in dataDirs
    /\ databases # {}

C21_NoFalseNegatives ==
    \A key \in added :
       /\ MayContain(bloom.filter, hash_key[key]) = "true"
       /\ restored # NoFilter => MayContain(restored, hash_key[key]) = "true"

\* the points of series s with start <= timestamp <= end in the sorted map,
\* in ascending timestamp order
MtExpected(s, start, end) ==
    LET seq == AscSeq({t \in MtTimestamps :
                         <<s, t>> \in DOMAIN mt_map /\ start <= t /\ t <= end})
    IN [i \in 1..Len(seq) |-> [timestamp |-> seq[i], fields |-> mt_map[<<s, seq[i]>>]]]

\* C25: MemTable.query(series, [start, end]) returns exactly the stored points
\* of that series with start <= timestamp <= end, ascending by timestamp, and
\* no point of another series, whatever series the MemTable holds
C25_QueryInclusive ==
    \A s \in MtSeries, start \in MtFullRange[1]..MtFullRange[2], end \in MtFullRange[1]..MtFullRange[2] :
       MemTableQuery(mt, s, start, end) = MtExpected(s, start, end)

\* two series are stored, one of them with two timestamps, and a one-timestamp
\* range picks a single point out of them
C25_Witness ==
    /\ {<<1, 1>>, <<1, 2>>, <<2, 1>>} \subseteq DOMAIN mt_map
    /\ Len(MemTableQuery(mt, 1, MtFullRange[1], MtFullRange[2])) = 2
    /\ Len(MemTableQuery(mt, 1, 2, 2)) = 1

\* every point of the last call was already stored with the same fields
IdenticalReinsert ==
    /\ mt_call.op \in {"insert", "insert_batch"}
    /\ \A i \in 1..Len(mt_call.points) :
          /\ mt_call.points[i].key \in DOMAIN mt_call.before
          /\ mt_call.before[mt_call.points[i].key] = mt_call.points[i].fields

\* C26: insert and insert_batch are idempotent last-write-wins: after a call
\* every key of the call holds the fields the call gave it last, and a call
\* whose points were all stored already with the same fields leaves the
\* entries, len and the tracked byte size of the MemTable unchanged
C26_IdempotentLastWriteWins ==
    /\ \A i \in 1..Len(mt_call.points) :
          (\A j \in (i + 1)..Len(mt_call.points) :
              mt_call.points[j].key # mt_call.points[i].key)
          => SkipListGet(mt.data, 0, mt.data.level - 1, mt_call.points[i].key)
                = [some |-> TRUE, value |-> mt_call.points[i].fields]
    /\ IdenticalReinsert =>
          /\ SkipListIter(mt.data, 0) = SkipListIter(mt_prev.data, 0)
          /\ mt.data.len = mt_prev.data.len
          /\ mt.size_bytes = mt_prev.size_bytes

RangeKeys == MtSeries \X (MtFullRange[1]..MtFullRange[2])

\* C27: after any sequence of SkipList.insert calls, for any node heights,
\* len() is the number of distinct keys, get(k) is the value of the last
\* insert for k or none, and range(lo, hi) yields exactly the entries with
\* lo <= key <= hi in ascending key order
C27_SortedMap ==
    /\ mt.data.len = Cardinality(DOMAIN mt_map)
    /\ \A k \in MtKeys :
          SkipListGet(mt.data, 0, mt.data.level - 1, k) =
             IF k \in DOMAIN mt_map THEN [some |-> TRUE, value |-> mt_map[k]]
             ELSE [some |-> FALSE, value |-> 0]
    /\ \A lo \in RangeKeys, hi \in RangeKeys :
          SkipListRange(mt.data, lo, hi) =
             LET ks == AscKeys({k \in DOMAIN mt_map : KeyLeq(lo, k) /\ KeyLeq(k, hi)})
             IN [i \in 1..Len(ks) |-> [key |-> ks[i], value |-> mt_map[ks[i]]]]

\* three inserts left two nodes of different heights, one key inserted twice
C27_Witness ==
    /\ mt_inserts = 3 /\ mt.data.len = 2
    /\ Len(mt.data.nodes[1].forward) # Len(mt.data.nodes[2].forward)
    /\ \E k \in DOMAIN mt_map : mt_map[k] = 2

\* the bytes of segment seg, those still in the writer's buffer included
SegmentWidth(seg) ==
    Width(segFiles[seg]) + (IF seg = segWriter.segment_id THEN Width(segWriter.buf) ELSE 0)

\* the records of segment seg, those still in the writer's buffer included
SegmentRecords(seg) ==
    Len(segLog[seg]) + (IF seg = segWriter.segment_id THEN Len(segWriter.bufRecs) ELSE 0)

\* C29: no WAL segment file grows beyond segment_size unless it consists of a
\* single record larger than segment_size, also when the writer was opened on
\* an existing non-empty segment
C29_SegmentSizeBound ==
    damage.seg = -1 =>
       \A seg \in DOMAIN segFiles :
          SegmentWidth(seg) <= SegmentBytes \/ SegmentRecords(seg) = 1

\* every reader of the list is on a file of its own, unchanged since it was opened
DistinctFreshReaders ==
    /\ \A i \in 1..Len(sstables) : ~Stale(sstables[i])
    /\ \A i, j \in 1..Len(sstables) : i # j => sstables[i].path # sstables[j].path

\* the points of series s per source, in the search order: the live MemTable,
\* the immutable MemTables from newest to oldest, the SSTables from the
\* greatest file id to the smallest
SourcesNewestFirst(s) ==
    LET n == Len(immutable_memtables)
        ids == AscSeq({sstables[i].path : i \in 1..Len(sstables)})
        m == Len(ids)
        reader(id) == CHOOSE r \in SeqRange(sstables) : r.path = id
    IN <<MemQuery(memtable, s, FullRange[1], FullRange[2])>>
       \o [i \in 1..n |-> MemQuery(immutable_memtables[n + 1 - i], s,
                                   FullRange[1], FullRange[2])]
       \o [i \in 1..m |-> SstQuery(reader(ids[m + 1 - i]).snap, s,
                                   FullRange[1], FullRange[2])]

\* the last point of the first non-empty source, none if every source is empty
LatestOfFirstHolder(s) ==
    LET srcs == SourcesNewestFirst(s)
        holders == {i \in 1..Len(srcs) : srcs[i] # <<>>}
    IN IF holders = {} THEN <<>>
       ELSE LET first == CHOOSE i \in holders : \A j \in holders : i <= j
            IN <<srcs[first][Len(srcs[first])]>>

\* C28: get_latest(series) returns the maximum-timestamp point of the first
\* source holding the series, searching the live MemTable, then the immutable
\* MemTables newest first, then the SSTables newest first, and none only when
\* no source holds the series (stated for readers on distinct, unchanged files)
C28_GetLatestNewestFirst ==
    \A t \in Threads :
       call[t].type = "get_latest" /\ DistinctFreshReaders =>
          /\ call[t].status = "Ok"
          /\ call[t].result = LatestOfFirstHolder(call[t].series)

\* C30: after Database.open the SSTable list is ordered by file id ascending
\* and every reader carries the id of its file
C30_LoadedSortedById ==
    [][Reopen =>
         /\ \A i \in 1..Len(sstables') : sstables'[i].id = sstables'[i].path
         /\ \A i, j \in 1..Len(sstables') :
               i < j => sstables'[i].path < sstables'[j].path]_vars

\* the points of series_key with start <= timestamp <= end in the MemTable,
\* in ascending timestamp order
TbExpected(series_key, start, end) ==
    LET hits == SelectSeq(tb_mem, LAMBDA e : e.key = series_key /\ I64Leq(start, e.timestamp)
                                             /\ I64Leq(e.timestamp, end))
    IN [i \in 1..Len(hits) |-> [timestamp |-> hits[i].timestamp, fields |-> hits[i].fields]]

\* C22: an SSTable built from an immutable MemTable of Float fields and
\* reopened returns, for every series and inclusive time range, exactly the
\* points of the series in the range, in ascending timestamp order
C22_BuildReopenQuery ==
    /\ tb_built.res \in {"none", "Ok"}
    /\ tb_query.op = "query" /\ tb_damage = NoDamage =>
          /\ tb_query.res = "Ok"
          /\ tb_query.points = TbExpected(tb_query.key, tb_query.start, tb_query.end)

\* advertised ranges of metadata meta enclose every entry of the MemTable
Encloses(meta) ==
    \A i \in 1..Len(tb_mem) :
       /\ I64Leq(meta.min_timestamp, tb_mem[i].timestamp)
       /\ I64Leq(tb_mem[i].timestamp, meta.max_timestamp)
       /\ SeriesKeyLeq(meta.min_key, tb_mem[i].key)
       /\ SeriesKeyLeq(tb_mem[i].key, meta.max_key)

\* C24: the ranges advertised for a flushed SSTable enclose its content, in
\* the metadata returned by the builder and in the metadata of a reader
\* opened on the file: min_timestamp <= timestamp <= max_timestamp and
\* min_key <= series key <= max_key for every stored point
C24_RangesEnclose ==
    /\ tb_built.res = "Ok" => Encloses(tb_built.meta)
    /\ tb_reader # NoReader => Encloses(tb_reader.meta)


\* the bytes of the first data block as the file holds them
FirstBlock == SubSeq(tb_file.data, 1, tb_reader.index[1].size)

\* the checksum stored at the end of the first data block is not the CRC32
\* of the bytes before it
FailsCrc ==
    GetU32(FirstBlock, Len(FirstBlock) - 4)
       # Crc32(Bytes(SubSeq(FirstBlock, 1, Len(FirstBlock) - 4)))

\* the last query has to read the first data block from the file
NeedsFirstBlock ==
    /\ tb_reader.index[1].series_key = Canonical(tb_query.key)
    /\ tb_query.op = "query_field" => tb_reader.index[1].field_name = tb_query.field_name
    /\ tb_reader.index[1].offset \notin tb_query.cached

\* the last query reads no damaged block
AvoidsFirstBlock ==
    \/ tb_reader.index[1].series_key # Canonical(tb_query.key)
    \/ tb_query.op = "query_field" /\ tb_reader.index[1].field_name # tb_query.field_name

\* the answer of the last query on an intact file
IntactAnswer ==
    LET all == TbExpected(tb_query.key, tb_query.start, tb_query.end)
    IN IF tb_query.op = "query" THEN all
       ELSE LET has == SelectSeq(all, LAMBDA p : tb_query.field_name \in DOMAIN p.fields)
            IN [i \in 1..Len(has) |-> <<has[i].timestamp, has[i].fields[tb_query.field_name]>>]

\* C23: when one data block of the file fails its CRC32 check, a query that
\* needs the block returns ChecksumMismatch, and a query for a series or a
\* field whose blocks are intact returns its points
C23_ChecksumMismatchOnDamagedBlock ==
    tb_query.damaged /\ FailsCrc =>
       /\ NeedsFirstBlock => tb_query.res = "ChecksumMismatch"
       /\ AvoidsFirstBlock => tb_query.res = "Ok" /\ tb_query.points = IntactAnswer

\* C31: after any sequence of block reads on a reader, the total size of the
\* blocks held in its block cache is at most the max_size of the cache
C31_CacheWithinMaxSize == HeldSize(bc.blocks) <= bc.max_size

\* Database::query_series on a Database with the live MemTable mem, the
\* queue imms and the readers ssts, every block read as the reader opened it
QuerySeriesOn(mem, imms, ssts, s, lo, hi) ==
    DedupByTimestamp(SortByTimestamp(
       MemQuery(mem, s, lo, hi)
       \o Flatten([i \in 1..Len(imms) |-> MemQuery(imms[i], s, lo, hi)])
       \o Flatten([i \in 1..Len(ssts) |->
                     IF OverlapsTime(ssts[i].snap, lo, hi)
                     THEN SstQuery(ssts[i].snap, s, lo, hi) ELSE <<>>])))

\* thread t registers the SSTable of the MemTable it took off the queue
Flushes(t) == pc[t] = "fi_open" /\ pc'[t] = "fi_truncate"

\* C32: flushing is transparent to readers for numeric data: query_series
\* returns the same points, with the same field names, values and value
\* types, before and after the MemTable holding them becomes an SSTable
C32_FlushKeepsNumericPoints ==
    [][\A t \in Threads : Flushes(t) =>
          \A s \in Series :
             QuerySeriesOn(memtable, <<imm[t]>> \o immutable_memtables, sstables,
                           s, FullRange[1], FullRange[2])
             = QuerySeriesOn(memtable', immutable_memtables', sstables',
                             s, FullRange[1], FullRange[2])]_vars

\* C33: threads that concurrently call StorageEngine::write or
\* get_or_create_database for a database that does not exist yet all succeed:
\* none receives the 'already exists' Config error, and the database is opened
\* only once
C33_ConcurrentGetOrCreate ==
    /\ \A t \in Threads : eng_th[t].res # "Config"
    /\ \A name \in DbNames : eng_opened[name] <= 1

\* no write is between its WAL append and its MemTable insert, and the first
\* MemTable is still the live one
WritesApplied == (\A t \in Threads : pc[t] # "w_insert") /\ next_memtable_id = 1

\* C34: for concurrent writes to the same (series, timestamp) the order of
\* their records in the WAL is the order in which they are applied to the live
\* MemTable: the value of every key after a crash and the WAL replay is the
\* value the MemTable held before the crash
C34_WalOrderIsApplyOrder ==
    dbOpen /\ WritesApplied =>
       \A k \in DOMAIN memtable.data :
          LET replayed == Replay(NewMemTable(0), WalRecover(walDir))
          IN k \in DOMAIN replayed.data /\ replayed.data[k] = memtable.data[k]

\* a point of write call number o is returned by query_series
Visible(o) ==
    \E s \in Series :
       LET ps == QuerySeriesOn(memtable, immutable_memtables, sstables, s,
                               FullRange[1], FullRange[2])
       IN \E i \in 1..Len(ps) : \E n \in DOMAIN ps[i].fields : ps[i].fields[n].v = o

\* C35: when Database::write returns an error, whichever step failed, none of
\* the points of the batch become visible: query_series does not return them
\* on the running instance, nor after a later reopen
C35_FailedWriteInvisible == dbOpen => \A o \in failed : ~Visible(o)

\* the timestamps of the points of the write of thread w that lie in the
\* series and the range of the query of thread q
BatchInRange(w, q) ==
    {call[w].points[i].key[2] : i \in {j \in 1..Len(call[w].points) :
        /\ call[w].points[j].key[1] = call[q].series
        /\ call[q].lo <= call[w].points[j].key[2]
        /\ call[w].points[j].key[2] <= call[q].hi}}

\* thread q returned from a query_series while the only write so far, a
\* batch of thread w, was running or had returned
QueryBesideBatch(q, w) ==
    /\ call[q].type = "query" /\ call[q].status = "Ok"
    /\ call[w].type = "write" /\ nextOp = 2

Flushing == {t \in Threads : pc[t] \in {"fi_build", "fi_open"}}

\* C38: with several threads flushing concurrently, the immutable queue holds
\* its MemTables in ascending id order, and of two MemTables being flushed the
\* older one (smaller id) has the smaller SSTable id
C38_FlushInIdOrder ==
    /\ \A i, j \in 1..Len(immutable_memtables) :
          i < j => immutable_memtables[i].id < immutable_memtables[j].id
    /\ \A t, u \in Flushing :
          imm[t].id < imm[u].id => sstable_id[t] < sstable_id[u]


\* ------------------------------------------------------------------- C39
\* C39: MemTable.contains_series(series) is true exactly when the MemTable
\* holds at least one entry of that series, at any timestamp
C39_ContainsSeriesIffHeld ==
    \A s \in MtSeries :
       MemTableContainsSeries(mt, s) <=> (\E key \in DOMAIN mt_map : key[1] = s)


\* ------------------------------------------------------------------- C40
\* the timestamps of a sequence of points
TimestampsOf(points) == {points[i].timestamp : i \in 1..Len(points)}

\* C40: get_latest(series) returns the point with the greatest timestamp among
\* the points query_series over the full time range returns for the series,
\* also when points were written out of timestamp order with flushes between
C40_GetLatestIsNewest ==
    \A t \in Threads :
       call[t].type = "get_latest" /\ call[t].status = "Ok" =>
          LET all == TimestampsOf(QuerySeriesOn(memtable, immutable_memtables, sstables,
                                                call[t].series, FullRange[1], FullRange[2]))
          IN IF all = {} THEN call[t].result = <<>>
             ELSE /\ call[t].result # <<>>
                  /\ \A ts \in all : ts <= call[t].result[1].timestamp


\* ------------------------------------------------------------------- C36
\* thread t stands at an acquisition that may make it wait in this state
Waits(t) ==
    /\ Running(t) /\ lk_pc[t] <= Len(lk_prog[t])
    /\ Instr(t)[1] = "acquire"
    /\ ~MustGet(t, Instr(t)[2], Instr(t)[3])

\* C36: threads concurrently running write, query_series, get_latest, flush
\* and stats on one Database never deadlock: whenever a call is running, some
\* running thread can make its next step, whatever the order in which the
\* memtable lock, the skip-list lock, the immutable-queue mutex, the sstables
\* lock and the WAL mutex were acquired
C36_NoDeadlock ==
    (\E t \in Threads : Running(t)) => \E t \in Threads : Running(t) /\ ~Waits(t)

\* a thread waits for memtable.write() in maybe_flush while another holds
\* memtable.read() together with a second lock
C36_Witness ==
    \E t, u \in Threads :
       /\ Waits(t) /\ Instr(t) = Acq("memtable", "W")
       /\ <<"memtable", "R">> \in lk_held[u]
       /\ Cardinality(lk_held[u]) >= 2

====
